---- MODULE Spec2Model ----
(***************************************************************************)
(* A model of the octopai terminal dashboard (src/src/main.rs): the        *)
(* screen / mode / modal state machine driven by one key event per step,   *)
(* the board's card lists and cursors, and the provisioning and teardown   *)
(* workflows with the external commands they issue.                        *)
(*                                                                         *)
(* Text is a sequence of one-character strings, so that prefix tests,      *)
(* splitting, trimming and matching are computed as the code computes      *)
(* them.  Messages built with format! start with their literal text as a   *)
(* single element followed by the characters of the interpolated value.    *)
(* An Option is a sequence of length at most one.                          *)
(***************************************************************************)
EXTENDS Integers, Sequences, FiniteSets, TLC

VARIABLES
    screen,          \* App.screen
    repo_select,     \* App.repo_select : RepoSelectState
    repo,            \* App.repo
    issues,          \* App.issues
    worktrees,       \* App.worktrees
    pull_requests,   \* App.pull_requests
    sessions,        \* App.sessions
    active_section,  \* App.active_section
    selected_card,   \* App.selected_card : [usize; 4]
    mode,            \* App.mode
    issue_modal,     \* App.issue_modal : Option<IssueModal>
    confirm_modal,   \* App.confirm_modal : Option<ConfirmModal>
    status_message,  \* App.status_message : Option<String>
    running,         \* FALSE once the event loop has been left with break
    config,          \* the configuration file: Option<repo>
    calls,           \* the external commands issued while handling the last key
    given,           \* the arguments of a function studied on its own
    returned,        \* what that function returned, as an Option
    store_file       \* the file of local issues of one repository, as an Option

vars == <<screen, repo_select, repo, issues, worktrees, pull_requests, sessions,
          active_section, selected_card, mode, issue_modal, confirm_modal,
          status_message, running, config, calls, given, returned,
          store_file>>

\* the variables the program itself never touches
pureVars == <<given, returned, store_file>>

-----------------------------------------------------------------------------
(* Bounds of the model                                                     *)

MaxInputLen == 1      \* characters typed into the owner field
MaxQueryLen == 1      \* characters typed into a filter query
MaxFieldLen == 1      \* characters typed into a field of the issue form
MaxIssues == 2        \* issues in one listing of the tracker
MaxWorktrees == 2     \* records in one worktree listing

-----------------------------------------------------------------------------
(* Options and text                                                        *)

None == <<>>
Some(x) == <<x>>
IsSome(o) == Len(o) = 1
Unwrap(o) == o[1]

Range(s) == {s[i] : i \in 1..Len(s)}

IsPrefix(p, s) == Len(p) <= Len(s) /\ SubSeq(s, 1, Len(p)) = p

\* str::strip_prefix: the rest of s after p, or None
StripPrefix(s, p) ==
    IF IsPrefix(p, s) THEN Some(SubSeq(s, Len(p) + 1, Len(s))) ELSE None

\* String::pop
Pop(s) == IF Len(s) = 0 THEN s ELSE SubSeq(s, 1, Len(s) - 1)

Whitespace == {" ", "\n", "\t", "\r"}

RECURSIVE TrimStart(_)
TrimStart(s) ==
    IF Len(s) > 0 /\ Head(s) \in Whitespace THEN TrimStart(Tail(s)) ELSE s

RECURSIVE TrimEnd(_)
TrimEnd(s) ==
    IF Len(s) > 0 /\ s[Len(s)] \in Whitespace THEN TrimEnd(Pop(s)) ELSE s

\* str::trim
\* a variant of Trim that trims nothing
NoTrim(s) == s

Trim(s) == TrimEnd(TrimStart(s))

Upper == <<"A","B","C","D","E","F","G","H","I","J","K","L","M",
           "N","O","P","Q","R","S","T","U","V","W","X","Y","Z">>
Lower == <<"a","b","c","d","e","f","g","h","i","j","k","l","m",
           "n","o","p","q","r","s","t","u","v","w","x","y","z">>

LowerChar(c) ==
    IF \E i \in 1..Len(Upper) : Upper[i] = c
    THEN Lower[CHOOSE i \in 1..Len(Upper) : Upper[i] = c]
    ELSE c

\* str::to_lowercase
ToLowercase(s) == [i \in 1..Len(s) |-> LowerChar(s[i])]

Digits == <<"0","1","2","3","4","5","6","7","8","9">>

\* u64::to_string
RECURSIVE ToDigits(_)
ToDigits(n) ==
    IF n < 10 THEN <<Digits[n + 1]>>
    ELSE ToDigits(n \div 10) \o <<Digits[(n % 10) + 1]>>

DigitValue(c) == (CHOOSE i \in 1..10 : Digits[i] = c) - 1

RECURSIVE DigitsValue(_)
DigitsValue(s) ==
    IF Len(s) = 0 THEN 0
    ELSE 10 * DigitsValue(Pop(s)) + DigitValue(s[Len(s)])

\* str::parse::<u64>: an optional '+', then one or more decimal digits
ParseU64(s) ==
    LET d == IF Len(s) > 0 /\ Head(s) = "+" THEN Tail(s) ELSE s
    IN  IF Len(d) > 0 /\ \A i \in 1..Len(d) : d[i] \in Range(Digits)
        THEN Some(DigitsValue(d))
        ELSE None

\* the index of the first "\n\n" in s at or after i, or 0
RECURSIVE FindBlank(_, _)
FindBlank(s, i) ==
    IF i + 1 > Len(s) THEN 0
    ELSE IF s[i] = "\n" /\ s[i + 1] = "\n" THEN i
    ELSE FindBlank(s, i + 1)

\* str::split("\n\n")
RECURSIVE SplitBlank(_)
SplitBlank(s) ==
    LET i == FindBlank(s, 1)
    IN  IF i = 0 THEN <<s>>
        ELSE <<SubSeq(s, 1, i - 1)>> \o SplitBlank(SubSeq(s, i + 2, Len(s)))

\* the index of the first c in s at or after i, or 0
RECURSIVE FindChar(_, _, _)
FindChar(s, c, i) ==
    IF i > Len(s) THEN 0
    ELSE IF s[i] = c THEN i
    ELSE FindChar(s, c, i + 1)

\* str::split(c)
RECURSIVE SplitChar(_, _)
SplitChar(s, c) ==
    LET i == FindChar(s, c, 1)
    IN  IF i = 0 THEN <<s>>
        ELSE <<SubSeq(s, 1, i - 1)>> \o SplitChar(SubSeq(s, i + 1, Len(s)), c)

\* str::lines: split at "\n", a final empty line dropped, a trailing "\r" cut
Lines(s) ==
    LET parts == SplitChar(s, "\n")
        kept == IF Len(parts[Len(parts)]) = 0 THEN Pop(parts) ELSE parts
        cut(l) == IF Len(l) > 0 /\ l[Len(l)] = "\r" THEN Pop(l) ELSE l
    IN  [i \in 1..Len(kept) |-> cut(kept[i])]

-----------------------------------------------------------------------------
(* Literal text of the program                                             *)

IssuePrefix == <<"i","s","s","u","e","-">>                       \* "issue-"
WtPrefix == <<"w","t","-">>                                       \* "wt-"
WorktreeMarker == <<"w","o","r","k","t","r","e","e"," ">>         \* "worktree "
BranchMarker == <<"b","r","a","n","c","h"," ","r","e","f","s","/",
                  "h","e","a","d","s","/">>                       \* "branch refs/heads/"
BareMarker == <<"b","a","r","e">>                                 \* "bare"
MainName == <<"m","a","i","n">>                                   \* "main"
MasterName == <<"m","a","s","t","e","r">>                         \* "master"
NoDescription == <<"N","o"," ","d","e","s","c","r","i","p","t","i","o","n">>
Ellipsis == <<".",".",".">>                                       \* "..."
DescMax == 80         \* body.len() > 80
DescKeep == 77        \* &body[..77]

-----------------------------------------------------------------------------
(* Fuzzy filter                                                            *)

\* the loop of fuzzy_match: each query character consumes the target up to
\* and including its first occurrence
RECURSIVE FuzzyScan(_, _)
FuzzyScan(q, t) ==
    IF Len(q) = 0 THEN TRUE
    ELSE LET i == FindChar(t, Head(q), 1)
         IN  IF i = 0 THEN FALSE
             ELSE FuzzyScan(Tail(q), SubSeq(t, i + 1, Len(t)))

\* a matcher that forgets the order: every query character occurs somewhere
fuzzy_match_unordered(query, target) ==
    Range(ToLowercase(query)) \subseteq Range(ToLowercase(target))

\* a matcher that folds the case of the target only
fuzzy_match_folds_target(query, target) == FuzzyScan(query, ToLowercase(target))

fuzzy_match(query, target) == FuzzyScan(ToLowercase(query), ToLowercase(target))

card_matches(card, query) ==
    fuzzy_match(query, card.title) \/ fuzzy_match(query, card.description)

\* a column filter that looks at the titles only
visible_cards_by_title(cards, filter_query) ==
    IF IsSome(filter_query) /\ Len(Unwrap(filter_query)) > 0
    THEN LET keep(c) == fuzzy_match(Unwrap(filter_query), c.title)
         IN  SelectSeq(cards, keep)
    ELSE cards

\* render_column: the cards drawn in a column, filter_query an Option
visible_cards(cards, filter_query) ==
    IF IsSome(filter_query) /\ Len(Unwrap(filter_query)) > 0
    THEN LET keep(c) == card_matches(c, Unwrap(filter_query))
         IN  SelectSeq(cards, keep)
    ELSE cards

-----------------------------------------------------------------------------
(* External commands.  A command ends "ok" (exit status 0), "fail" (another *)
(* exit status, with text on standard error) or "spawn" (it could not be    *)
(* run, an io::Error).  A call is recorded with its arguments and outcome.  *)

Stderrs == {<<"e", "\n">>}     \* what a failing command writes to stderr
IoErrors == {<<"x">>}          \* the text of an io::Error

\* a command, its arguments, its outcome and (for a listing) what it returned
Call(cmd, args, res) == [cmd |-> cmd, args |-> args, res |-> res, out |-> <<>>]
Listed(cmd, args, res, out) == [cmd |-> cmd, args |-> args, res |-> res, out |-> out]

\* the Err of a command run with .output().map_err(..)? and a status test:
\* the set of (outcome, error text) pairs of a command that does not end ok
Failures(spawn_text, status_text) ==
    {[res |-> "spawn", err |-> <<spawn_text>> \o e] : e \in IoErrors}
    \cup {[res |-> "fail", err |-> <<status_text>> \o Trim(e)] : e \in Stderrs}

-----------------------------------------------------------------------------
(* Issue listing                                                           *)

\* the objects `gh issue list --json number,title,body,labels` can print
IssueUniverse ==
    << [number |-> Some(1), title |-> Some(<<"a">>), body |-> Some(<<>>),
        labels |-> <<>>],
       [number |-> Some(10), title |-> Some(<<"w">>), body |-> Some(<<"w">>),
        labels |-> << <<"b","u","g">> >>] >>

\* the subsequences of s of at most n elements
RECURSIVE SubSeqs(_, _)
SubSeqs(s, n) ==
    IF Len(s) = 0 \/ n = 0 THEN {<<>>}
    ELSE SubSeqs(Tail(s), n)
         \cup {<<Head(s)>> \o r : r \in SubSeqs(Tail(s), n - 1)}

\* A text is a sequence of characters; String::len and the range index of
\* a str count bytes of its UTF-8 encoding.  EAcute stands for U+00E9, a
\* character of two bytes; the other characters of the model take one.
EAcute == "U+00E9"

\* char::len_utf8
Utf8Len(c) == IF c = EAcute THEN 2 ELSE 1

\* str::len
RECURSIVE ByteLen(_)
ByteLen(s) == IF Len(s) = 0 THEN 0 ELSE Utf8Len(Head(s)) + ByteLen(Tail(s))

\* str::is_char_boundary
IsCharBoundary(s, n) == \E k \in 0..Len(s) : ByteLen(SubSeq(s, 1, k)) = n

\* &s[..n] where n is a character boundary (the index panics elsewhere)
SliceTo(s, n) ==
    SubSeq(s, 1, CHOOSE k \in 0..Len(s) : ByteLen(SubSeq(s, 1, k)) = n)

\* the description of fetch_issues and fetch_local_issues: Some(text), or
\* None when &body[..77] panics
Description(body) ==
    IF ByteLen(body) > DescMax
    THEN IF IsCharBoundary(body, DescKeep)
         THEN Some(SliceTo(body, DescKeep) \o Ellipsis)
         ELSE None
    ELSE IF ByteLen(body) = 0 THEN Some(NoDescription)
    ELSE Some(body)

\* fetch_issues, the closure mapping one JSON object to a Card
IssueCard(issue) ==
    LET number == IF IsSome(issue.number) THEN Unwrap(issue.number) ELSE 0
        title == IF IsSome(issue.title) THEN Unwrap(issue.title) ELSE <<>>
        body == IF IsSome(issue.body) THEN Unwrap(issue.body) ELSE <<>>
    IN  [id |-> IssuePrefix \o ToDigits(number),
         title |-> <<"#">> \o ToDigits(number) \o <<" ">> \o title,
         description |-> Unwrap(Description(body)),
         full_description |-> IF ByteLen(body) = 0 THEN None ELSE Some(body),
         tag |-> IF Len(issue.labels) > 0 THEN issue.labels[1]
                 ELSE <<"o","p","e","n">>,
         related |-> <<>>]

\* the card lists fetch_issues builds from the listings
IssueCardLists == {[i \in 1..Len(l) |-> IssueCard(l[i])] : l \in SubSeqs(IssueUniverse, MaxIssues)}

\* fetch_issues: the cards and the call, for every answer of the tracker
fetch_issues(r) ==
    {[cards |-> cards, call |-> Listed("issue-list", <<r>>, "ok", cards)] :
        cards \in IssueCardLists}
    \cup {[cards |-> <<>>, call |-> Call("issue-list", <<r>>, res)] :
            res \in {"fail", "spawn"}}

-----------------------------------------------------------------------------
(* Worktree listing                                                        *)

NL == <<"\n">>

\* one record of `git worktree list --porcelain`
Record(path, branch) ==
    WorktreeMarker \o path \o NL \o <<"H","E","A","D"," ","0">> \o NL
    \o BranchMarker \o branch \o NL \o NL

RECURSIVE Flatten(_)
Flatten(ss) == IF Len(ss) = 0 THEN <<>> ELSE Head(ss) \o Flatten(Tail(ss))

\* the texts `git worktree list --porcelain` can print
WorktreeOutputs ==
    LET universe ==
            << Record(<<"/","r","/","w">>, MainName),
               Record(<<"/","r","/","w","-","i","s","s","u","e","-","1">>,
                      IssuePrefix \o <<"1">>),
               Record(<<"/","r","/","o","l","d">>, MasterName) >>
    IN  {Flatten(l) : l \in SubSeqs(universe, MaxWorktrees)}

\* fetch_worktrees, the inner loop over the lines of one block
RECURSIVE ScanBlock(_, _)
ScanBlock(lines, acc) ==
    IF Len(lines) = 0 THEN acc
    ELSE LET line == Head(lines)
             p == StripPrefix(line, WorktreeMarker)
             b == StripPrefix(line, BranchMarker)
         IN  ScanBlock(Tail(lines),
                 IF IsSome(p) THEN [acc EXCEPT !.path = Unwrap(p)]
                 ELSE IF IsSome(b) THEN [acc EXCEPT !.branch = Unwrap(b)]
                 ELSE IF line = BareMarker THEN [acc EXCEPT !.is_bare = TRUE]
                 ELSE acc)

\* a loop body that names every card after its path and ignores the branch
BlockCardsNamedByPath(block) ==
    LET rec == ScanBlock(Lines(block),
                         [path |-> <<>>, branch |-> <<>>, is_bare |-> FALSE])
        segs == SplitChar(rec.path, "/")
        display_name == segs[Len(segs)]
        is_main == display_name = MainName \/ display_name = MasterName
        num == StripPrefix(display_name, IssuePrefix)
    IN  IF Len(rec.path) = 0 \/ rec.is_bare THEN <<>>
        ELSE << [id |-> WtPrefix \o display_name,
                 title |-> display_name,
                 description |-> rec.path,
                 full_description |-> None,
                 tag |-> IF is_main THEN <<"p","r","i","m","a","r","y">>
                         ELSE <<"b","r","a","n","c","h">>,
                 related |-> IF IsSome(num)
                             THEN << IssuePrefix \o Unwrap(num) >>
                             ELSE <<>>] >>

\* fetch_worktrees, the body of the loop over blocks: the cards of one block
BlockCards(block) ==
    LET rec == ScanBlock(Lines(block),
                         [path |-> <<>>, branch |-> <<>>, is_bare |-> FALSE])
        segs == SplitChar(rec.path, "/")
        display_name == IF Len(rec.branch) = 0 THEN segs[Len(segs)]
                        ELSE rec.branch
        is_main == display_name = MainName \/ display_name = MasterName
        num == StripPrefix(display_name, IssuePrefix)
    IN  IF Len(rec.path) = 0 \/ rec.is_bare THEN <<>>
        ELSE << [id |-> WtPrefix \o display_name,
                 title |-> display_name,
                 description |-> rec.path,
                 full_description |-> None,
                 tag |-> IF is_main THEN <<"p","r","i","m","a","r","y">>
                         ELSE <<"b","r","a","n","c","h">>,
                 related |-> IF IsSome(num)
                             THEN << IssuePrefix \o Unwrap(num) >>
                             ELSE <<>>] >>

\* fetch_worktrees, from the text of the listing to the cards
ParseWorktrees(stdout) ==
    LET blocks == SplitBlank(stdout)
    IN  Flatten([i \in 1..Len(blocks) |-> BlockCards(blocks[i])])

\* fetch_worktrees: the cards and the call, for every answer of git
fetch_worktrees ==
    {LET cards == ParseWorktrees(out)
     IN  [cards |-> cards, call |-> Listed("worktree-list", <<>>, "ok", cards)] :
        out \in WorktreeOutputs}
    \cup {[cards |-> <<>>, call |-> Call("worktree-list", <<>>, res)] :
            res \in {"fail", "spawn"}}

-----------------------------------------------------------------------------
(* Workflows: straight-line sequences of external commands                 *)

\* One command of a workflow.  must: a failure returns Err at once (the
\* `?` and the status test); otherwise the outcome is dropped (`let _ =`).
Step(cmd, args, must, spawn_text, status_text) ==
    [cmd |-> cmd, args |-> args, must |-> must,
     spawn_text |-> spawn_text, status_text |-> status_text]

\* Running the commands of a plan in order: every way it can go, as the
\* Result (None for Ok(()), Some(e) for Err(e)) and the calls issued.
RECURSIVE RunPlan(_)
RunPlan(plan) ==
    IF Len(plan) = 0 THEN {[result |-> None, calls |-> <<>>]}
    ELSE LET s == Head(plan)
             rest == RunPlan(Tail(plan))
         IN  {[result |-> r.result,
               calls |-> <<Call(s.cmd, s.args, "ok")>> \o r.calls] : r \in rest}
             \cup
             (IF s.must
              THEN {[result |-> Some(f.err),
                     calls |-> <<Call(s.cmd, s.args, f.res)>>] :
                        f \in Failures(s.spawn_text, s.status_text)}
              ELSE {[result |-> r.result,
                     calls |-> <<Call(s.cmd, s.args, res)>> \o r.calls] :
                        r \in rest, res \in {"fail", "spawn"}})

\* a variant of get_repo_name taking the first segment
get_repo_name_first(r) == SplitChar(r, "/")[1]

get_repo_name(r) == LET segs == SplitChar(r, "/") IN segs[Len(segs)]

\* str::replace('\'', "'\\''")
EscapeQuotes(s) == [i \in 1..Len(s) |-> IF s[i] = "'" THEN "'\\''" ELSE s[i]]

\* create_worktree_and_session: the prompt and the assistant command line
ClaudeCmd(r, number, title, body) ==
    LET prompt ==
            <<"You are working on GitHub issue #">> \o ToDigits(number)
            \o <<" for the repo ">> \o r \o <<".\n\nTitle: ">> \o title
            \o <<"\n\n">>
            \o (IF Len(body) = 0 THEN <<"No description provided.">> ELSE body)
            \o <<"\n\nPlease investigate the codebase and implement a solution for this issue.">>
    IN  <<"claude -p '">> \o EscapeQuotes(prompt)
        \o <<"' --allowedTools 'Read,Edit,Bash' --max-turns 10">>

\* create_worktree_and_session: its commands, in the order of the code
ProvisionPlan(r, number, title, body) ==
    LET repo_name == get_repo_name(r)
        branch == IssuePrefix \o ToDigits(number)
        worktree_path == <<".", ".", "/">> \o repo_name
                         \o <<"-">> \o IssuePrefix \o ToDigits(number)
    IN  << Step("worktree-add", <<worktree_path, branch>>, TRUE,
                "Failed to run git: ", "git worktree add error: "),
           Step("new-session", <<branch, worktree_path>>, TRUE,
                "Failed to create tmux session: ", "tmux error: "),
           Step("split-window", <<branch, worktree_path>>, TRUE,
                "Failed to split tmux pane: ", "tmux split error: "),
           Step("send-keys", <<branch, ClaudeCmd(r, number, title, body)>>,
                FALSE, "", "") >>

\* variants of create_worktree_and_session with a slip in it
provision_session_first(r, number, title, body) ==
    LET p == ProvisionPlan(r, number, title, body)
    IN  RunPlan(<<p[2], p[1], p[3], p[4]>>)

provision_strict_send(r, number, title, body) ==
    LET p == ProvisionPlan(r, number, title, body)
    IN  RunPlan([p EXCEPT ![4] = Step(p[4].cmd, p[4].args, TRUE,
                                      "Failed to send keys: ", "tmux send error: ")])

provision_with_rollback(r, number, title, body) ==
    LET p == ProvisionPlan(r, number, title, body)
    IN  {IF IsSome(o.result) /\ Len(o.calls) > 1
         THEN [o EXCEPT !.calls = Append(@, Call("worktree-remove",
                                                 <<p[1].args[1]>>, "ok"))]
         ELSE o : o \in RunPlan(p)}

create_worktree_and_session(r, number, title, body) ==
    RunPlan(ProvisionPlan(r, number, title, body))

\* remove_worktree: its commands, in the order of the code
TeardownPlan(path, branch) ==
    << Step("kill-session", <<branch>>, FALSE, "", ""),
       Step("worktree-remove", <<path>>, TRUE,
            "Failed to run git: ", "git worktree remove error: "),
       Step("branch-delete", <<branch>>, FALSE, "", "") >>

\* variants of remove_worktree with a slip in it
remove_worktree_strict_delete(path, branch) ==
    LET p == TeardownPlan(path, branch)
    IN  RunPlan([p EXCEPT ![3] = Step(p[3].cmd, p[3].args, TRUE,
                                      "Failed to run git: ", "git branch error: ")])

remove_worktree_lenient(path, branch) ==
    LET p == TeardownPlan(path, branch)
    IN  RunPlan([p EXCEPT ![2] = Step(p[2].cmd, p[2].args, FALSE, "", "")])

remove_worktree(path, branch) == RunPlan(TeardownPlan(path, branch))

\* a variant of create_issue that sends the request twice
create_issue_twice(r, title, body) ==
    RunPlan(<< Step("issue-create", <<r, title, body>>, TRUE,
                    "Failed to run gh: ", "gh error: "),
               Step("issue-create", <<r, title, body>>, TRUE,
                    "Failed to run gh: ", "gh error: ") >>)

create_issue(r, title, body) ==
    RunPlan(<< Step("issue-create", <<r, title, body>>, TRUE,
                    "Failed to run gh: ", "gh error: ") >>)

close_issue(r, number) ==
    RunPlan(<< Step("issue-close", <<r, ToDigits(number)>>, TRUE,
                    "Failed to run gh: ", "gh error: ") >>)

-----------------------------------------------------------------------------
(* Repository selection                                                    *)

RepoUniverse == << <<"a", "/", "w">>, <<"a", "/", "x">> >>
MaxRepos == 2         \* lines in one repository listing

\* RepoSelectState::new
RepoSelectNew ==
    [input |-> <<>>, repos |-> <<>>, filtered_repos |-> <<>>, selected |-> 0,
     phase |-> "Typing", error |-> None, filter_query |-> <<>>]

\* a variant of update_filtered that leaves the cursor where it was
update_filtered_unclamped(rs) ==
    LET keep(r) == fuzzy_match(rs.filter_query, r)
    IN  [rs EXCEPT !.filtered_repos = IF Len(rs.filter_query) = 0 THEN rs.repos
                                      ELSE SelectSeq(rs.repos, keep)]

\* RepoSelectState::update_filtered
update_filtered(rs) ==
    LET keep(r) == fuzzy_match(rs.filter_query, r)
        f == IF Len(rs.filter_query) = 0 THEN rs.repos
             ELSE SelectSeq(rs.repos, keep)
    IN  [rs EXCEPT !.filtered_repos = f,
                   !.selected = IF rs.selected >= Len(f)
                                THEN (IF Len(f) = 0 THEN 0 ELSE Len(f) - 1)
                                ELSE rs.selected]

\* fetch_repos: Ok(repos) or Err(text), and the call
fetch_repos(owner) ==
    {[ok |-> FALSE, repos |-> <<>>, err |-> f.err,
      call |-> Call("repo-list", <<owner>>, f.res)] :
        f \in Failures("Failed to run gh: ", "gh error: ")}
    \cup
    {LET nonempty(l) == Len(l) > 0
         repos == SelectSeq(Lines(out), nonempty)
     IN  IF Len(repos) = 0
         THEN [ok |-> FALSE, repos |-> <<>>,
               err |-> <<"No repos found for '">> \o owner \o <<"'">>,
               call |-> Listed("repo-list", <<owner>>, "ok", repos)]
         ELSE [ok |-> TRUE, repos |-> repos, err |-> <<>>,
               call |-> Listed("repo-list", <<owner>>, "ok", repos)] :
        \* the texts `gh repo list ... -q .[].nameWithOwner` can print
        out \in {Flatten([i \in 1..Len(l) |-> l[i] \o NL]) :
                    l \in SubSeqs(RepoUniverse, MaxRepos)}}

\* save_config: the file after the call, and the call
save_config(r) ==
    {[file |-> Some(r), call |-> Call("save-config", <<r>>, "ok")],
     [file |-> config, call |-> Call("save-config", <<r>>, "fail")]}

-----------------------------------------------------------------------------
(* The application state                                                   *)

Sections == 0..3

Normal == [kind |-> "Normal", query |-> <<>>]
Filtering(q) == [kind |-> "Filtering", query |-> q]
CreatingIssue == [kind |-> "CreatingIssue", query |-> <<>>]
Confirming == [kind |-> "Confirming", query |-> <<>>]

\* IssueModal::new
IssueModalNew == [title |-> <<>>, body |-> <<>>, active_field |-> 0, error |-> None]

\* a variant of CloseIssue that names the next issue
CloseIssueNext(number) ==
    [kind |-> "CloseIssue", number |-> number + 1, path |-> <<>>, branch |-> <<>>]

CloseIssue(number) ==
    [kind |-> "CloseIssue", number |-> number, path |-> <<>>, branch |-> <<>>]
RemoveWorktree(path, branch) ==
    [kind |-> "RemoveWorktree", number |-> 0, path |-> path, branch |-> branch]

\* App::section_cards, on the given lists
SectionCards(s, iss, wts, prs, ses) ==
    CASE s = 0 -> iss
      [] s = 1 -> wts
      [] s = 2 -> prs
      [] s = 3 -> ses
      [] OTHER -> <<>>

section_cards(s) == SectionCards(s, issues, worktrees, pull_requests, sessions)

section_card_count(s) == Len(section_cards(s))

\* ui: the query of the filter mode, handed to the columns as an Option
render_filter_query == IF mode.kind = "Filtering" THEN Some(mode.query) ELSE None

\* ui: only the column of the active section is filtered
column_query(i) == IF i = active_section THEN render_filter_query ELSE None

\* App::clamp_selected: the cursors after clamping the cursor of section s
\* against a list of count cards
clamp_selected(sel, s, count) ==
    IF count = 0 THEN [sel EXCEPT ![s] = 0]
    ELSE IF sel[s] >= count THEN [sel EXCEPT ![s] = count - 1]
    ELSE sel

\* App::move_card_up
move_card_up(sel, s) ==
    IF sel[s] > 0 THEN [sel EXCEPT ![s] = sel[s] - 1] ELSE sel

\* a cursor that wraps to the first card below the last one
move_card_down_wraps(sel, s, count) ==
    IF count > 0 /\ sel[s] < count - 1
    THEN [sel EXCEPT ![s] = sel[s] + 1]
    ELSE [sel EXCEPT ![s] = 0]

\* App::move_card_down
move_card_down(sel, s, count) ==
    IF count > 0 /\ sel[s] < count - 1 THEN [sel EXCEPT ![s] = sel[s] + 1] ELSE sel

\* Vec::get
Get(s, i) == IF i + 1 <= Len(s) THEN Some(s[i + 1]) ELSE None

\* render_column: the card drawn as selected in the column of the active
\* section, an Option (is_selected compares the cursor with the index in
\* visible_cards)
drawn_selected ==
    Get(visible_cards(section_cards(active_section), column_query(active_section)),
        selected_card[active_section])

\* App::selected_card_related_ids: the card whose related ids are
\* highlighted, an Option (the cursor indexes section_cards)
related_source == Get(section_cards(active_section), selected_card[active_section])

\* the issue number of a card of the issue column: id "issue-N" parsed
CardNumber(card) ==
    LET num_str == StripPrefix(card.id, IssuePrefix)
    IN  IF IsSome(num_str) THEN ParseU64(Unwrap(num_str)) ELSE None

\* a variant of the test that forgets master
IsProtectedMainOnly(branch) == branch = MainName

\* the test of the 'd' handler of the worktree column
IsProtected(branch) == branch = MainName \/ branch = MasterName

\* main, up to the first key event
Startup ==
    /\ running = TRUE
    /\ repo_select = RepoSelectNew
    /\ pull_requests = <<>>
    /\ sessions = <<>>
    /\ active_section = 0
    /\ selected_card = [s \in Sections |-> 0]
    /\ mode = Normal
    /\ issue_modal = None
    /\ confirm_modal = None
    /\ status_message = None
    \* the configurations load_config can find
    /\ config \in {None, Some(RepoUniverse[1]), Some(<<"w">>)}
    /\ IF IsSome(config) /\ Len(Unwrap(config)) > 0
       THEN /\ repo = Unwrap(config)
            /\ screen = "Board"
            /\ \E fi \in fetch_issues(Unwrap(config)), fw \in fetch_worktrees :
                 /\ issues = fi.cards
                 /\ worktrees = fw.cards
                 /\ calls = <<fi.call, fw.call>>
       ELSE /\ repo = <<>>
            /\ screen = "RepoSelect"
            /\ issues = <<>>
            /\ worktrees = <<>>
            /\ calls = <<>>

\* the program started, no function of it singled out
Init ==
    /\ given = <<>>
    /\ returned = <<>>
    /\ store_file = <<>>
    /\ Startup

boardVars == <<issues, worktrees, pull_requests, sessions, active_section,
               selected_card, mode, issue_modal, confirm_modal, status_message>>

-----------------------------------------------------------------------------
(* Key events on the repository-selection screen                           *)

OwnerChars == {"a", " "}       \* characters typed into the owner field
QueryChars == {"a", "w"}       \* characters typed into a filter query
FieldChars == {"a", " "}       \* characters typed into the issue form

InTyping == running /\ screen = "RepoSelect" /\ repo_select.phase = "Typing"
InPicking == running /\ screen = "RepoSelect" /\ repo_select.phase = "Picking"

\* a variant of TypingEsc that always leaves the program
TypingEscQuits ==
    /\ InTyping
    /\ running' = FALSE
    /\ calls' = <<>>
    /\ UNCHANGED <<screen, repo_select, repo, config, boardVars>>
    /\ UNCHANGED pureVars

\* an Esc that goes back to a board with its cursors reset
TypingEscResetsBoard ==
    /\ InTyping
    /\ IF Len(repo) = 0
       THEN running' = FALSE /\ screen' = screen
       ELSE running' = running /\ screen' = "Board"
    /\ selected_card' = [s \in Sections |-> 0]
    /\ calls' = <<>>
    /\ UNCHANGED <<repo_select, repo, config, issues, worktrees, pull_requests,
                   sessions, active_section, mode, issue_modal, confirm_modal,
                   status_message>>
    /\ UNCHANGED pureVars

TypingEsc ==
    /\ InTyping
    /\ IF Len(repo) = 0
       THEN running' = FALSE /\ screen' = screen
       ELSE running' = running /\ screen' = "Board"
    /\ calls' = <<>>
    /\ UNCHANGED <<repo_select, repo, config, boardVars>>
    /\ UNCHANGED pureVars

\* an Enter handler that lists the repositories of a blank owner too
TypingEnterLenient ==
    /\ InTyping
    /\ LET owner == Trim(repo_select.input)
           loading == [repo_select EXCEPT !.error = None, !.phase = "Loading"]
       IN  \E f \in fetch_repos(owner) :
             /\ calls' = <<Call("draw", <<loading.phase>>, "ok"), f.call>>
             /\ repo_select' =
                  IF f.ok
                  THEN [update_filtered(
                           [loading EXCEPT !.repos = f.repos,
                                           !.filter_query = <<>>])
                        EXCEPT !.selected = 0, !.phase = "Picking"]
                  ELSE [loading EXCEPT !.error = Some(f.err),
                                       !.phase = "Typing"]
    /\ UNCHANGED <<screen, running, repo, config, boardVars>>
    /\ UNCHANGED pureVars

\* an Enter handler that leaves the phase alone when the listing fails
TypingEnterKeepsLoading ==
    /\ InTyping
    /\ LET owner == Trim(repo_select.input)
       IN  IF Len(owner) = 0
           THEN /\ repo_select' =
                      [repo_select EXCEPT
                          !.error = Some(<<"Please enter an org or user name">>)]
                /\ calls' = <<>>
           ELSE LET loading == [repo_select EXCEPT !.error = None,
                                                   !.phase = "Loading"]
                IN  \E f \in fetch_repos(owner) :
                      /\ calls' = <<Call("draw", <<loading.phase>>, "ok"), f.call>>
                      /\ repo_select' =
                           IF f.ok
                           THEN [update_filtered(
                                    [loading EXCEPT !.repos = f.repos,
                                                    !.filter_query = <<>>])
                                 EXCEPT !.selected = 0, !.phase = "Picking"]
                           ELSE [loading EXCEPT !.error = Some(f.err)]
    /\ UNCHANGED <<screen, running, repo, config, boardVars>>
    /\ UNCHANGED pureVars

TypingEnter ==
    /\ InTyping
    /\ LET owner == Trim(repo_select.input)
       IN  IF Len(owner) = 0
           THEN /\ repo_select' =
                      [repo_select EXCEPT
                          !.error = Some(<<"Please enter an org or user name">>)]
                /\ calls' = <<>>
           ELSE LET loading == [repo_select EXCEPT !.error = None,
                                                   !.phase = "Loading"]
                IN  \E f \in fetch_repos(owner) :
                      /\ calls' = <<Call("draw", <<loading.phase>>, "ok"), f.call>>
                      /\ repo_select' =
                           IF f.ok
                           THEN [update_filtered(
                                    [loading EXCEPT !.repos = f.repos,
                                                    !.filter_query = <<>>])
                                 EXCEPT !.selected = 0, !.phase = "Picking"]
                           ELSE [loading EXCEPT !.error = Some(f.err),
                                                !.phase = "Typing"]
    /\ UNCHANGED <<screen, running, repo, config, boardVars>>
    /\ UNCHANGED pureVars

TypingBackspace ==
    /\ InTyping
    /\ repo_select' = [repo_select EXCEPT !.input = Pop(@)]
    /\ calls' = <<>>
    /\ UNCHANGED <<screen, running, repo, config, boardVars>>
    /\ UNCHANGED pureVars

\* a variant of TypingChar that wipes the error as the text changes
TypingCharClearsError ==
    /\ InTyping
    /\ Len(repo_select.input) < MaxInputLen
    /\ \E c \in OwnerChars :
         repo_select' = [repo_select EXCEPT !.input = Append(@, c), !.error = None]
    /\ calls' = <<>>
    /\ UNCHANGED <<screen, running, repo, config, boardVars>>
    /\ UNCHANGED pureVars

TypingChar ==
    /\ InTyping
    /\ Len(repo_select.input) < MaxInputLen
    /\ \E c \in OwnerChars :
         repo_select' = [repo_select EXCEPT !.input = Append(@, c)]
    /\ calls' = <<>>
    /\ UNCHANGED <<screen, running, repo, config, boardVars>>
    /\ UNCHANGED pureVars

PickingEsc ==
    /\ InPicking
    /\ repo_select' = [repo_select EXCEPT !.phase = "Typing", !.filter_query = <<>>]
    /\ calls' = <<>>
    /\ UNCHANGED <<screen, running, repo, config, boardVars>>
    /\ UNCHANGED pureVars

\* a choice that is given up when the configuration cannot be written
PickingEnterStrictSave ==
    /\ InPicking
    /\ LET chosen == Get(repo_select.filtered_repos, repo_select.selected)
       IN  IF IsSome(chosen)
           THEN \E sc \in save_config(Unwrap(chosen)),
                   fi \in fetch_issues(Unwrap(chosen)),
                   fw \in fetch_worktrees :
                  IF sc.call.res = "ok"
                  THEN /\ config' = sc.file
                       /\ issues' = fi.cards
                       /\ worktrees' = fw.cards
                       /\ selected_card' = [s \in Sections |-> 0]
                       /\ repo' = Unwrap(chosen)
                       /\ screen' = "Board"
                       /\ calls' = <<sc.call, fi.call, fw.call>>
                  ELSE /\ calls' = <<sc.call>>
                       /\ UNCHANGED <<config, issues, worktrees, selected_card,
                                      repo, screen>>
           ELSE /\ calls' = <<>>
                /\ UNCHANGED <<config, issues, worktrees, selected_card, repo, screen>>
    /\ UNCHANGED <<repo_select, running, pull_requests, sessions, active_section,
                   mode, issue_modal, confirm_modal, status_message>>
    /\ UNCHANGED pureVars

PickingEnter ==
    /\ InPicking
    /\ LET chosen == Get(repo_select.filtered_repos, repo_select.selected)
       IN  IF IsSome(chosen)
           THEN \E sc \in save_config(Unwrap(chosen)),
                   fi \in fetch_issues(Unwrap(chosen)),
                   fw \in fetch_worktrees :
                  /\ config' = sc.file
                  /\ issues' = fi.cards
                  /\ worktrees' = fw.cards
                  /\ selected_card' = [s \in Sections |-> 0]
                  /\ repo' = Unwrap(chosen)
                  /\ screen' = "Board"
                  /\ calls' = <<sc.call, fi.call, fw.call>>
           ELSE /\ calls' = <<>>
                /\ UNCHANGED <<config, issues, worktrees, selected_card, repo, screen>>
    /\ UNCHANGED <<repo_select, running, pull_requests, sessions, active_section,
                   mode, issue_modal, confirm_modal, status_message>>
    /\ UNCHANGED pureVars

PickingUp ==
    /\ InPicking
    /\ repo_select' = [repo_select EXCEPT !.selected = IF @ > 0 THEN @ - 1 ELSE @]
    /\ calls' = <<>>
    /\ UNCHANGED <<screen, running, repo, config, boardVars>>
    /\ UNCHANGED pureVars

PickingDown ==
    /\ InPicking
    /\ repo_select' =
         [repo_select EXCEPT !.selected =
             IF Len(repo_select.filtered_repos) > 0
                /\ @ < Len(repo_select.filtered_repos) - 1
             THEN @ + 1 ELSE @]
    /\ calls' = <<>>
    /\ UNCHANGED <<screen, running, repo, config, boardVars>>
    /\ UNCHANGED pureVars

PickingSlash ==
    /\ InPicking
    /\ repo_select' = update_filtered([repo_select EXCEPT !.filter_query = <<>>])
    /\ calls' = <<>>
    /\ UNCHANGED <<screen, running, repo, config, boardVars>>
    /\ UNCHANGED pureVars

PickingBackspace ==
    /\ InPicking
    /\ repo_select' = update_filtered([repo_select EXCEPT !.filter_query = Pop(@)])
    /\ calls' = <<>>
    /\ UNCHANGED <<screen, running, repo, config, boardVars>>
    /\ UNCHANGED pureVars

\* a Char(c) arm placed before those of 'k', 'j' and '/'
PickingCharFirst ==
    /\ InPicking
    /\ Len(repo_select.filter_query) < MaxQueryLen
    /\ \E c \in QueryChars \cup {"k", "j", "/"} :
         repo_select' =
             IF c # "/"
             THEN update_filtered([repo_select EXCEPT !.filter_query = Append(@, c)])
             ELSE repo_select
    /\ calls' = <<>>
    /\ UNCHANGED <<screen, running, repo, config, boardVars>>
    /\ UNCHANGED pureVars

\* the Char(c) arm of Picking: 'k', 'j' and '/' are taken by the arms
\* before it
PickingChar ==
    /\ InPicking
    /\ Len(repo_select.filter_query) < MaxQueryLen
    /\ \E c \in (QueryChars \cup {"k", "j", "/"}) \ {"k", "j", "/"} :
         repo_select' =
             IF c # "/"
             THEN update_filtered([repo_select EXCEPT !.filter_query = Append(@, c)])
             ELSE repo_select
    /\ calls' = <<>>
    /\ UNCHANGED <<screen, running, repo, config, boardVars>>
    /\ UNCHANGED pureVars

-----------------------------------------------------------------------------
(* Key events on the board: Filtering                                      *)

InMode(kind) == running /\ screen = "Board" /\ mode.kind = kind

repoVars == <<screen, running, repo_select, repo, config>>

\* Esc that leaves the filter mode with the query still in force
FilteringEscKeepsQuery ==
    /\ InMode("Filtering")
    /\ mode' = [kind |-> "Normal", query |-> mode.query]
    /\ calls' = <<>>
    /\ UNCHANGED <<repoVars, issues, worktrees, pull_requests, sessions,
                   active_section, selected_card, issue_modal, confirm_modal,
                   status_message>>
    /\ UNCHANGED pureVars

FilteringEsc ==
    /\ InMode("Filtering")
    /\ mode' = Normal
    /\ calls' = <<>>
    /\ UNCHANGED <<repoVars, issues, worktrees, pull_requests, sessions,
                   active_section, selected_card, issue_modal, confirm_modal,
                   status_message>>
    /\ UNCHANGED pureVars

FilteringBackspace ==
    /\ InMode("Filtering")
    /\ mode' = Filtering(Pop(mode.query))
    /\ selected_card' = clamp_selected(selected_card, active_section,
                                       section_card_count(active_section))
    /\ calls' = <<>>
    /\ UNCHANGED <<repoVars, issues, worktrees, pull_requests, sessions,
                   active_section, issue_modal, confirm_modal, status_message>>
    /\ UNCHANGED pureVars

FilteringUp ==
    /\ InMode("Filtering")
    /\ selected_card' = move_card_up(selected_card, active_section)
    /\ calls' = <<>>
    /\ UNCHANGED <<repoVars, issues, worktrees, pull_requests, sessions,
                   active_section, mode, issue_modal, confirm_modal, status_message>>
    /\ UNCHANGED pureVars

FilteringDown ==
    /\ InMode("Filtering")
    /\ selected_card' = move_card_down(selected_card, active_section,
                                       section_card_count(active_section))
    /\ calls' = <<>>
    /\ UNCHANGED <<repoVars, issues, worktrees, pull_requests, sessions,
                   active_section, mode, issue_modal, confirm_modal, status_message>>
    /\ UNCHANGED pureVars

\* a filter mode in which the command key 'w' still leaves the program
FilteringCharCommands ==
    /\ InMode("Filtering")
    /\ Len(mode.query) < MaxQueryLen
    /\ \E c \in QueryChars :
         /\ mode' = Filtering(Append(mode.query, c))
         /\ running' = (c # "w")
    /\ selected_card' = clamp_selected(selected_card, active_section,
                                       section_card_count(active_section))
    /\ calls' = <<>>
    /\ UNCHANGED <<screen, repo_select, repo, config, issues, worktrees,
                   pull_requests, sessions, active_section, issue_modal,
                   confirm_modal, status_message>>
    /\ UNCHANGED pureVars

FilteringChar ==
    /\ InMode("Filtering")
    /\ Len(mode.query) < MaxQueryLen
    /\ \E c \in QueryChars : mode' = Filtering(Append(mode.query, c))
    /\ selected_card' = clamp_selected(selected_card, active_section,
                                       section_card_count(active_section))
    /\ calls' = <<>>
    /\ UNCHANGED <<repoVars, issues, worktrees, pull_requests, sessions,
                   active_section, issue_modal, confirm_modal, status_message>>
    /\ UNCHANGED pureVars

-----------------------------------------------------------------------------
(* Key events on the board: Normal.  Every handler first clears the status  *)
(* message.                                                                *)

\* the status messages of the one-shot actions
ProvisionedStatusPlain(number) == <<"Created worktree and session">>
ProvisionedStatus(number) ==
    <<"Created worktree and session for issue #">> \o ToDigits(number)
ErrorStatus(e) == <<"Error: ">> \o e
ClosedStatus(number) == <<"Closed issue #">> \o ToDigits(number)
RemovedStatus(branch) == <<"Removed worktree '">> \o branch \o <<"'">>
ProtectedStatus == <<"Cannot remove main/master worktree">>

NormalQuit ==
    /\ InMode("Normal")
    /\ status_message' = None
    /\ running' = FALSE
    /\ calls' = <<>>
    /\ UNCHANGED <<screen, repo_select, repo, config, issues, worktrees,
                   pull_requests, sessions, active_section, selected_card, mode,
                   issue_modal, confirm_modal>>
    /\ UNCHANGED pureVars

\* a variant of enter_repo_select that goes back to the state last left
enter_repo_select_stale ==
    LET owner == IF FindChar(repo, "/", 1) # 0 THEN SplitChar(repo, "/")[1] ELSE <<>>
    IN  /\ repo_select' = [repo_select EXCEPT !.input = owner, !.phase = "Typing"]
        /\ screen' = "RepoSelect"

\* App::enter_repo_select
enter_repo_select ==
    LET owner == IF FindChar(repo, "/", 1) # 0 THEN SplitChar(repo, "/")[1] ELSE <<>>
    IN  /\ repo_select' = [RepoSelectNew EXCEPT !.input = owner]
        /\ screen' = "RepoSelect"

\* an Enter arm that also serves the filter mode
NormalEnterInFilter ==
    /\ running /\ screen = "Board" /\ mode.kind \in {"Normal", "Filtering"}
    /\ status_message' = None
    /\ enter_repo_select
    /\ calls' = <<>>
    /\ UNCHANGED <<running, repo, config, issues, worktrees, pull_requests,
                   sessions, active_section, selected_card, mode, issue_modal,
                   confirm_modal>>
    /\ UNCHANGED pureVars

NormalEnter ==
    /\ InMode("Normal")
    /\ status_message' = None
    /\ enter_repo_select
    /\ calls' = <<>>
    /\ UNCHANGED <<running, repo, config, issues, worktrees, pull_requests,
                   sessions, active_section, selected_card, mode, issue_modal,
                   confirm_modal>>
    /\ UNCHANGED pureVars

NormalTab ==
    /\ InMode("Normal")
    /\ status_message' = None
    /\ active_section' = (active_section + 1) % 4
    /\ calls' = <<>>
    /\ UNCHANGED <<repoVars, issues, worktrees, pull_requests, sessions,
                   selected_card, mode, issue_modal, confirm_modal>>
    /\ UNCHANGED pureVars

\* Shift+Tab that stops at the first section instead of wrapping to the last
NormalBackTabNoWrap ==
    /\ InMode("Normal")
    /\ status_message' = None
    /\ active_section' = IF active_section = 0 THEN 0 ELSE active_section - 1
    /\ calls' = <<>>
    /\ UNCHANGED <<repoVars, issues, worktrees, pull_requests, sessions,
                   selected_card, mode, issue_modal, confirm_modal>>
    /\ UNCHANGED pureVars

NormalBackTab ==
    /\ InMode("Normal")
    /\ status_message' = None
    /\ active_section' = (active_section + 3) % 4
    /\ calls' = <<>>
    /\ UNCHANGED <<repoVars, issues, worktrees, pull_requests, sessions,
                   selected_card, mode, issue_modal, confirm_modal>>
    /\ UNCHANGED pureVars

NormalSlash ==
    /\ InMode("Normal")
    /\ status_message' = None
    /\ mode' = Filtering(<<>>)
    /\ calls' = <<>>
    /\ UNCHANGED <<repoVars, issues, worktrees, pull_requests, sessions,
                   active_section, selected_card, issue_modal, confirm_modal>>
    /\ UNCHANGED pureVars

\* an 'n' arm without its section guard
NormalNAnywhere ==
    /\ InMode("Normal")
    /\ status_message' = None
    /\ mode' = CreatingIssue
    /\ issue_modal' = Some(IssueModalNew)
    /\ calls' = <<>>
    /\ UNCHANGED <<repoVars, issues, worktrees, pull_requests, sessions,
                   active_section, selected_card, confirm_modal>>
    /\ UNCHANGED pureVars

NormalN ==
    /\ InMode("Normal")
    /\ active_section = 0
    /\ status_message' = None
    /\ mode' = CreatingIssue
    /\ issue_modal' = Some(IssueModalNew)
    /\ calls' = <<>>
    /\ UNCHANGED <<repoVars, issues, worktrees, pull_requests, sessions,
                   active_section, selected_card, confirm_modal>>
    /\ UNCHANGED pureVars

\* the section whose cursor the 'w' handler clamps after it has replaced
\* the worktree list: clamp_selected works on the active section
ProvisionClampSection == active_section

NormalW ==
    /\ InMode("Normal")
    /\ active_section = 0
    /\ LET card == Get(issues, selected_card[0])
           number == IF IsSome(card) THEN CardNumber(Unwrap(card)) ELSE None
       IN  IF IsSome(number)
           THEN \E r \in create_worktree_and_session(
                            repo, Unwrap(number), Unwrap(card).title,
                            IF IsSome(Unwrap(card).full_description)
                            THEN Unwrap(Unwrap(card).full_description) ELSE <<>>) :
                  IF r.result = None
                  THEN \E fw \in fetch_worktrees :
                         /\ worktrees' = fw.cards
                         /\ selected_card' =
                              clamp_selected(selected_card, ProvisionClampSection,
                                  Len(SectionCards(ProvisionClampSection, issues,
                                          fw.cards, pull_requests, sessions)))
                         /\ status_message' = Some(ProvisionedStatus(Unwrap(number)))
                         /\ calls' = Append(r.calls, fw.call)
                  ELSE /\ status_message' = Some(ErrorStatus(Unwrap(r.result)))
                       /\ calls' = r.calls
                       /\ UNCHANGED <<worktrees, selected_card>>
           ELSE /\ status_message' = None
                /\ calls' = <<>>
                /\ UNCHANGED <<worktrees, selected_card>>
    /\ UNCHANGED <<repoVars, issues, pull_requests, sessions, active_section,
                   mode, issue_modal, confirm_modal>>
    /\ UNCHANGED pureVars

NormalD0 ==
    /\ InMode("Normal")
    /\ active_section = 0
    /\ status_message' = None
    /\ LET card == Get(issues, selected_card[0])
           number == IF IsSome(card) THEN CardNumber(Unwrap(card)) ELSE None
       IN  IF IsSome(number)
           THEN /\ confirm_modal' =
                     Some([message |-> <<"Close issue #">> \o ToDigits(Unwrap(number))
                                       \o <<"?\n\n">> \o Unwrap(card).title,
                           on_confirm |-> CloseIssue(Unwrap(number))])
                /\ mode' = Confirming
           ELSE UNCHANGED <<confirm_modal, mode>>
    /\ calls' = <<>>
    /\ UNCHANGED <<repoVars, issues, worktrees, pull_requests, sessions,
                   active_section, selected_card, issue_modal>>
    /\ UNCHANGED pureVars

NormalD1 ==
    /\ InMode("Normal")
    /\ active_section = 1
    /\ LET card == Get(worktrees, selected_card[1])
       IN  IF IsSome(card)
           THEN LET branch == Unwrap(card).title
                    path == Unwrap(card).description
                IN  IF IsProtected(branch)
                    THEN /\ status_message' = Some(ProtectedStatus)
                         /\ UNCHANGED <<confirm_modal, mode>>
                    ELSE /\ status_message' = None
                         /\ confirm_modal' =
                              Some([message |-> <<"Remove worktree '">> \o branch
                                        \o <<"'?\n\nPath: ">> \o path
                                        \o <<"\nThis will also delete the branch and kill any tmux session.">>,
                                    on_confirm |-> RemoveWorktree(path, branch)])
                         /\ mode' = Confirming
           ELSE /\ status_message' = None
                /\ UNCHANGED <<confirm_modal, mode>>
    /\ calls' = <<>>
    /\ UNCHANGED <<repoVars, issues, worktrees, pull_requests, sessions,
                   active_section, selected_card, issue_modal>>
    /\ UNCHANGED pureVars

\* a variant of NormalUp that leaves the status message alone
NormalUpKeepsStatus ==
    /\ InMode("Normal")
    /\ selected_card' = move_card_up(selected_card, active_section)
    /\ calls' = <<>>
    /\ UNCHANGED <<repoVars, issues, worktrees, pull_requests, sessions,
                   active_section, mode, issue_modal, confirm_modal,
                   status_message>>
    /\ UNCHANGED pureVars

NormalUp ==
    /\ InMode("Normal")
    /\ status_message' = None
    /\ selected_card' = move_card_up(selected_card, active_section)
    /\ calls' = <<>>
    /\ UNCHANGED <<repoVars, issues, worktrees, pull_requests, sessions,
                   active_section, mode, issue_modal, confirm_modal>>
    /\ UNCHANGED pureVars

NormalDown ==
    /\ InMode("Normal")
    /\ status_message' = None
    /\ selected_card' = move_card_down(selected_card, active_section,
                                       section_card_count(active_section))
    /\ calls' = <<>>
    /\ UNCHANGED <<repoVars, issues, worktrees, pull_requests, sessions,
                   active_section, mode, issue_modal, confirm_modal>>
    /\ UNCHANGED pureVars

\* any other key, and 'n', 'w', 'd' in a section where their arm's guard fails
NormalOther ==
    /\ InMode("Normal")
    /\ status_message' = None
    /\ calls' = <<>>
    /\ UNCHANGED <<repoVars, issues, worktrees, pull_requests, sessions,
                   active_section, selected_card, mode, issue_modal, confirm_modal>>
    /\ UNCHANGED pureVars

-----------------------------------------------------------------------------
(* Key events on the board: Confirming                                     *)

ConfirmYes ==
    /\ InMode("Confirming")
    /\ confirm_modal' = None
    /\ mode' = Normal
    /\ IF IsSome(confirm_modal)
       THEN LET action == Unwrap(confirm_modal).on_confirm
            IN  IF action.kind = "CloseIssue"
                THEN \E r \in close_issue(repo, action.number) :
                       /\ UNCHANGED worktrees
                       /\ IF r.result = None
                          THEN \E fi \in fetch_issues(repo) :
                                 /\ issues' = fi.cards
                                 /\ selected_card' =
                                      clamp_selected(selected_card, active_section,
                                          Len(SectionCards(active_section, fi.cards,
                                                  worktrees, pull_requests, sessions)))
                                 /\ status_message' = Some(ClosedStatus(action.number))
                                 /\ calls' = Append(r.calls, fi.call)
                          ELSE /\ status_message' = Some(ErrorStatus(Unwrap(r.result)))
                               /\ calls' = r.calls
                               /\ UNCHANGED <<issues, selected_card>>
                ELSE \E r \in remove_worktree(action.path, action.branch) :
                       /\ UNCHANGED issues
                       /\ IF r.result = None
                          THEN \E fw \in fetch_worktrees :
                                 /\ worktrees' = fw.cards
                                 /\ selected_card' =
                                      clamp_selected(selected_card, active_section,
                                          Len(SectionCards(active_section, issues,
                                                  fw.cards, pull_requests, sessions)))
                                 /\ status_message' = Some(RemovedStatus(action.branch))
                                 /\ calls' = Append(r.calls, fw.call)
                          ELSE /\ status_message' = Some(ErrorStatus(Unwrap(r.result)))
                               /\ calls' = r.calls
                               /\ UNCHANGED <<worktrees, selected_card>>
       ELSE /\ calls' = <<>>
            /\ UNCHANGED <<issues, worktrees, selected_card, status_message>>
    /\ UNCHANGED <<repoVars, pull_requests, sessions, active_section, issue_modal>>
    /\ UNCHANGED pureVars

\* a variant of ConfirmNo that sends the cursors home
ConfirmNoResetsCursor ==
    /\ InMode("Confirming")
    /\ confirm_modal' = None
    /\ mode' = Normal
    /\ calls' = <<>>
    /\ selected_card' = [s \in Sections |-> 0]
    /\ UNCHANGED <<repoVars, issues, worktrees, pull_requests, sessions,
                   active_section, issue_modal, status_message>>
    /\ UNCHANGED pureVars

ConfirmNo ==
    /\ InMode("Confirming")
    /\ confirm_modal' = None
    /\ mode' = Normal
    /\ calls' = <<>>
    /\ UNCHANGED <<repoVars, issues, worktrees, pull_requests, sessions,
                   active_section, selected_card, issue_modal, status_message>>
    /\ UNCHANGED pureVars

-----------------------------------------------------------------------------
(* Key events on the board: CreatingIssue                                  *)

InModal == InMode("CreatingIssue") /\ IsSome(issue_modal)

modalFrame == <<repoVars, issues, worktrees, pull_requests, sessions,
                active_section, selected_card, mode, confirm_modal, status_message>>

SetModal(m) == issue_modal' = Some(m)

\* a variant of ModalEsc that leaves the form in place
ModalEscKeepsModal ==
    /\ InModal
    /\ mode' = Normal
    /\ calls' = <<>>
    /\ UNCHANGED <<repoVars, issues, worktrees, pull_requests, sessions,
                   active_section, selected_card, confirm_modal, status_message,
                   issue_modal>>
    /\ UNCHANGED pureVars

ModalEsc ==
    /\ InModal
    /\ issue_modal' = None
    /\ mode' = Normal
    /\ calls' = <<>>
    /\ UNCHANGED <<repoVars, issues, worktrees, pull_requests, sessions,
                   active_section, selected_card, confirm_modal, status_message>>
    /\ UNCHANGED pureVars

ModalTab ==
    /\ InModal
    /\ SetModal([Unwrap(issue_modal) EXCEPT
                    !.active_field = IF @ = 0 THEN 1 ELSE 0])
    /\ calls' = <<>>
    /\ UNCHANGED modalFrame
    /\ UNCHANGED pureVars

ModalEnter ==
    /\ InModal
    /\ LET modal == Unwrap(issue_modal)
       IN  IF modal.active_field = 0
           THEN SetModal([modal EXCEPT !.active_field = 1])
           ELSE /\ Len(modal.body) < MaxFieldLen
                /\ SetModal([modal EXCEPT !.body = Append(@, "\n")])
    /\ calls' = <<>>
    /\ UNCHANGED modalFrame
    /\ UNCHANGED pureVars

ModalSubmit ==
    /\ InModal
    /\ LET modal == Unwrap(issue_modal)
           title == Trim(modal.title)
       IN  IF Len(title) = 0
           THEN /\ SetModal([modal EXCEPT
                                !.error = Some(<<"Title cannot be empty">>)])
                /\ calls' = <<>>
                /\ UNCHANGED <<issues, selected_card, mode>>
           ELSE \E r \in create_issue(repo, title, modal.body) :
                  IF r.result = None
                  THEN /\ issue_modal' = None
                       /\ mode' = Normal
                       /\ \E fi \in fetch_issues(repo) :
                            /\ issues' = fi.cards
                            /\ selected_card' =
                                 clamp_selected(selected_card, active_section,
                                     Len(SectionCards(active_section, fi.cards,
                                             worktrees, pull_requests, sessions)))
                            /\ calls' = Append(r.calls, fi.call)
                  ELSE /\ SetModal([modal EXCEPT !.error = r.result])
                       /\ calls' = r.calls
                       /\ UNCHANGED <<issues, selected_card, mode>>
    /\ UNCHANGED <<repoVars, worktrees, pull_requests, sessions, active_section,
                   confirm_modal, status_message>>
    /\ UNCHANGED pureVars

ModalBackspace ==
    /\ InModal
    /\ LET modal == Unwrap(issue_modal)
       IN  IF modal.active_field = 0
           THEN SetModal([modal EXCEPT !.title = Pop(@)])
           ELSE SetModal([modal EXCEPT !.body = Pop(@)])
    /\ calls' = <<>>
    /\ UNCHANGED modalFrame
    /\ UNCHANGED pureVars

ModalChar ==
    /\ InModal
    /\ LET modal == Unwrap(issue_modal)
       IN  \E c \in FieldChars :
             IF modal.active_field = 0
             THEN /\ Len(modal.title) < MaxFieldLen
                  /\ SetModal([modal EXCEPT !.title = Append(@, c)])
             ELSE /\ Len(modal.body) < MaxFieldLen
                  /\ SetModal([modal EXCEPT !.body = Append(@, c)])
    /\ calls' = <<>>
    /\ UNCHANGED modalFrame
    /\ UNCHANGED pureVars

\* a key no arm of the active handler matches (not in Normal mode, where
\* NormalOther still clears the status message)
IgnoredKey ==
    /\ running
    /\ ~(screen = "Board" /\ mode.kind = "Normal")
    /\ calls' = <<>>
    /\ UNCHANGED <<repoVars, boardVars>>
    /\ UNCHANGED pureVars

-----------------------------------------------------------------------------

\* the handlers of the board screen that stay on it (or leave the program)
BoardNext ==
    \/ FilteringEsc \/ FilteringBackspace \/ FilteringUp \/ FilteringDown
    \/ FilteringChar
    \/ NormalQuit \/ NormalTab \/ NormalBackTab \/ NormalSlash
    \/ NormalN \/ NormalW \/ NormalD0 \/ NormalD1 \/ NormalUp \/ NormalDown
    \/ NormalOther
    \/ ConfirmYes \/ ConfirmNo
    \/ ModalEsc \/ ModalTab \/ ModalEnter \/ ModalSubmit \/ ModalBackspace
    \/ ModalChar
    \/ IgnoredKey

\* the handlers of the repository-selection screen, and the one that enters it
RepoSelectNext ==
    \/ NormalEnter
    \/ TypingEsc \/ TypingEnter \/ TypingBackspace \/ TypingChar
    \/ PickingEsc \/ PickingEnter \/ PickingUp \/ PickingDown
    \/ PickingSlash \/ PickingBackspace \/ PickingChar

Next == BoardNext \/ RepoSelectNext

Spec == Init /\ [][Next]_vars

\* The board alone: the program started with a saved repository, for as long
\* as the operator stays on the board.
InitBoard == Init /\ screen = "Board"

SpecBoard == InitBoard /\ [][BoardNext]_vars

\* Choosing a repository and coming back: the program started without a
\* saved repository, with the keys of the repository screen and, on the
\* board, the keys that open and leave a mode or the program.
SelectNext ==
    \/ RepoSelectNext
    \/ NormalQuit \/ NormalSlash \/ FilteringEsc
    \/ NormalN \/ ModalEsc
    \/ NormalD0 \/ ConfirmNo

InitSelect == Init /\ screen = "RepoSelect"

SpecSelect == InitSelect /\ [][SelectNext]_vars

\* The two forms: the program from any start, with the keys of the owner
\* form, 'n' on the board and the keys of the issue form.
FormsNext ==
    \/ TypingEsc \/ TypingEnter \/ TypingBackspace \/ TypingChar
    \/ NormalN
    \/ ModalEsc \/ ModalTab \/ ModalEnter \/ ModalSubmit \/ ModalBackspace
    \/ ModalChar

SpecForms == Init /\ [][FormsNext]_vars

\* Repository selection from any start: the keys of the repository screen
\* and the Enter key of the board that leads to it.
SpecRepoSelect == Init /\ [][RepoSelectNext]_vars

\* A repository change that is given up: from a board of a/w with all its
\* issues and several worktrees, the operator moves about the board, opens
\* the repository screen and uses every key of it but the Enter of Picking.
CancelNext ==
    \/ NormalTab \/ NormalDown \/ NormalEnter
    \/ TypingEsc \/ TypingEnter \/ TypingBackspace \/ TypingChar
    \/ PickingEsc \/ PickingUp \/ PickingDown
    \/ PickingSlash \/ PickingBackspace \/ PickingChar

InitCancel ==
    /\ InitBoard
    /\ repo = RepoUniverse[1]
    /\ Len(issues) = Len(IssueUniverse)
    /\ Len(worktrees) > 1

SpecCancel == InitCancel /\ [][CancelNext]_vars

-----------------------------------------------------------------------------
(* The functions of the program taken alone: the program sits at startup   *)
(* without a saved repository, `given` holds the arguments of a call and   *)
(* `returned` what the call returned (nothing before it).                  *)

progVars == <<repoVars, boardVars, calls>>

\* the texts of at most n characters over an alphabet
RECURSIVE Texts(_, _)
Texts(alphabet, n) ==
    IF n = 0 THEN {<<>>}
    ELSE LET shorter == Texts(alphabet, n - 1)
         IN  shorter \cup {Append(t, c) : t \in shorter, c \in alphabet}

MatchChars == {"g", "h", "G"}  \* characters of queries and targets
MaxPatternLen == 2    \* characters of a query handed to fuzzy_match
MaxTargetLen == 3     \* characters of a target handed to fuzzy_match
MaxSuffixLen == 1     \* characters a target is extended by

\* the calls of fuzzy_match: a query, a target, and what the target is
\* extended by
InitFuzzy ==
    LET inputs ==
        [query : Texts(MatchChars, MaxPatternLen),
         target : Texts(MatchChars, MaxTargetLen)
                  \cup {<<"g", "i", "t", "h", "u", "b">>},
         suffix : Texts(MatchChars, MaxSuffixLen)]
    IN  /\ Startup
        /\ config = None
        /\ given \in inputs
        /\ returned = <<>>
        /\ store_file = <<>>

\* fuzzy_match called on the query and the target, on the target and
\* itself, on the query and the extended target, on "" and the target
FuzzyMatchCalled ==
    /\ returned = <<>>
    /\ returned' =
         <<[matched |-> fuzzy_match(given.query, given.target),
            itself |-> fuzzy_match(given.target, given.target),
            extended |-> fuzzy_match(given.query, given.target \o given.suffix),
            empty |-> fuzzy_match(<<>>, given.target)]>>
    /\ UNCHANGED <<given, store_file, progVars>>

SpecFuzzy == InitFuzzy /\ [][FuzzyMatchCalled]_vars

MaxListLen == 2       \* elements of a list handed to a filter

\* a card of a column, with the text the filter looks at
FilterCard(title, description) ==
    [id |-> title, title |-> title, description |-> description,
     full_description |-> None, tag |-> <<>>, related |-> <<>>]

\* a column of cards, or a repository listing, and a query
InitFilter ==
    LET inputs ==
        LET cards == {FilterCard(<<"g">>, <<"h">>), FilterCard(<<"h">>, <<"h", "g">>),
                      FilterCard(<<"G", "h">>, <<"g">>)}
            names == {<<"g", "/", "h">>, <<"h", "/", "G">>, <<"G">>}
        IN  [kind : {"cards"}, list : Texts(cards, MaxListLen),
             query : Texts(MatchChars, MaxPatternLen)]
            \cup [kind : {"names"}, list : Texts(names, MaxListLen),
                  query : Texts(MatchChars, MaxPatternLen)]
    IN  /\ Startup
        /\ config = None
        /\ given \in inputs
        /\ returned = <<>>
        /\ store_file = <<>>

\* render_column filtering the column of the active section
ColumnFiltered ==
    /\ returned = <<>>
    /\ given.kind = "cards"
    /\ returned' = <<visible_cards(given.list, Some(given.query))>>
    /\ UNCHANGED <<given, store_file, progVars>>

\* update_filtered on a picker holding the listing and the query
ListingFiltered ==
    /\ returned = <<>>
    /\ given.kind = "names"
    /\ returned' =
         <<update_filtered([RepoSelectNew EXCEPT !.phase = "Picking",
                                                 !.repos = given.list,
                                                 !.filter_query = given.query])
              .filtered_repos>>
    /\ UNCHANGED <<given, store_file, progVars>>

SpecFilter == InitFilter /\ [][ColumnFiltered \/ ListingFiltered]_vars

MaxNarrowRun == 82    \* one-byte characters at the head of a body
MaxWideRun == 41      \* two-byte characters after them

\* the issue bodies: a run of "a" followed by a run of U+00E9
InitDescription ==
    LET inputs ==
        {[body |-> [k \in 1..(i + j) |-> IF k <= i THEN "a" ELSE EAcute]] :
            i \in 0..MaxNarrowRun, j \in 0..MaxWideRun}
    IN  /\ Startup
        /\ config = None
        /\ given \in inputs
        /\ returned = <<>>
        /\ store_file = <<>>

\* the closure of fetch_issues on issue 1 "a" with the body: the card, or
\* a panic of the slice
DescriptionDerived ==
    /\ returned = <<>>
    /\ returned' =
         <<IF Description(given.body) = None
           THEN [panicked |-> TRUE, card |-> None]
           ELSE [panicked |-> FALSE,
                 card |-> Some(IssueCard([number |-> Some(1),
                                          title |-> Some(<<"a">>),
                                          body |-> Some(given.body),
                                          labels |-> <<>>]))]>>
    /\ UNCHANGED <<given, store_file, progVars>>

SpecDescription == InitDescription /\ [][DescriptionDerived]_vars

MaxRecords == 2       \* records of a worktree listing parsed alone

\* the listings handed to the parser: the records, each with its path line
\* (or none), its branch line (or "detached") and whether it has a "bare"
\* line, and the text git prints for them
InitWorktrees ==
    LET inputs ==
        LET rec(path, branch, bare) == [path |-> path, branch |-> branch, bare |-> bare]
            kinds ==
                {rec(Some(<<"/","r","/","w">>), Some(MainName), FALSE),
                 rec(Some(<<"/","r","/","o","l","d">>), Some(MasterName), FALSE),
                 rec(Some(<<"/","r","/","w","-","i","s","s","u","e","-","1">>),
                     Some(IssuePrefix \o <<"1">>), FALSE),
                 rec(Some(<<"/","r","/">> \o IssuePrefix \o <<"2">>), None, FALSE),
                 rec(Some(<<"/","r","/">> \o MainName), None, FALSE),
                 rec(Some(<<"/","r","/","b">>), None, TRUE),
                 rec(None, Some(MainName), FALSE)}
            text(r) ==
                (IF IsSome(r.path) THEN WorktreeMarker \o Unwrap(r.path) \o NL ELSE <<>>)
                \o (IF r.bare THEN BareMarker \o NL
                    ELSE <<"H","E","A","D"," ","0">> \o NL
                         \o (IF IsSome(r.branch)
                             THEN BranchMarker \o Unwrap(r.branch) \o NL
                             ELSE <<"d","e","t","a","c","h","e","d">> \o NL))
                \o NL
        IN  {[records |-> l, stdout |-> Flatten([i \in 1..Len(l) |-> text(l[i])])] :
                l \in Texts(kinds, MaxRecords)}
    IN  /\ Startup
        /\ config = None
        /\ given \in inputs
        /\ returned = <<>>
        /\ store_file = <<>>

\* fetch_worktrees on the text of a listing
WorktreesParsed ==
    /\ returned = <<>>
    /\ returned' = <<ParseWorktrees(given.stdout)>>
    /\ UNCHANGED <<given, store_file, progVars>>

SpecWorktrees == InitWorktrees /\ [][WorktreesParsed]_vars

-----------------------------------------------------------------------------
(* The store of local issues of one repository (local_issues.rs): the file  *)
(* is None while it does not exist, Some(None) while it holds text that     *)
(* serde_json does not parse, Some(Some(store)) while it holds the JSON of  *)
(* a LocalIssueStore.                                                       *)

\* how many create calls are followed
MaxCreates == 3

\* the titles and bodies the calls are made with
LocalTexts == {<<"a">>, <<"w">>}

\* load_store: the default store when the file cannot be read or does not
\* parse, the store of the file otherwise
load_store ==
    LET default == [next_id |-> 0, issues |-> <<>>]
    IN  IF store_file = None
        THEN {default}
        ELSE {default,
              IF IsSome(Unwrap(store_file))
              THEN Unwrap(Unwrap(store_file)) ELSE default}

\* save_store: the file written whole; or an error with the file as it
\* was (the directory or the file could not be made); or an error out of
\* fs::write after it truncated the file
save_store(store) ==
    {[file |-> Some(Some(store)), res |-> "Ok"],
     [file |-> store_file, res |-> "Failed to create directory"],
     [file |-> Some(None), res |-> "Failed to write"]}

\* iter_mut().find(|i| i.id == id): the place of the first issue of that
\* id, for a list that holds one
FindIssue(list, id) ==
    CHOOSE i \in 1..Len(list) :
        /\ list[i].id = id
        /\ \A j \in 1..(i - 1) : list[j].id # id

\* create_local_issue(repo, title, body)
CreateLocalIssue ==
    \E title \in LocalTexts, loaded \in load_store :
      LET id == loaded.next_id + 1
          store == [next_id |-> id,
                    issues |-> Append(loaded.issues,
                                 [id |-> id, title |-> title, body |-> <<>>,
                                  state |-> "open"])]
      IN  /\ Len(returned.created) < MaxCreates
          /\ \E saved \in save_store(store) :
               /\ store_file' = saved.file
               /\ given' = [fn |-> "create", id |-> 0, title |-> title,
                            body |-> <<>>]
               /\ returned' =
                    IF saved.res = "Ok"
                    THEN [res |-> "Ok", id |-> id,
                          created |-> Append(returned.created, id)]
                    ELSE [returned EXCEPT !.res = saved.res, !.id = 0]
          /\ UNCHANGED progVars

\* edit_local_issue(repo, id, title, body)
EditLocalIssue ==
    \E id \in 1..MaxCreates, title \in LocalTexts, loaded \in load_store :
      /\ given' = [fn |-> "edit", id |-> id, title |-> title, body |-> title]
      /\ IF \E i \in 1..Len(loaded.issues) : loaded.issues[i].id = id
         THEN \E saved \in save_store(
                  [loaded EXCEPT
                     !.issues[FindIssue(loaded.issues, id)].title = title,
                     !.issues[FindIssue(loaded.issues, id)].body = title]) :
                /\ store_file' = saved.file
                /\ returned' = [returned EXCEPT !.res = saved.res, !.id = 0]
         ELSE /\ store_file' = store_file
              /\ returned' = [returned EXCEPT !.res = "Local issue not found", !.id = 0]
      /\ UNCHANGED progVars

\* close_local_issue(repo, id)
CloseLocalIssue ==
    \E id \in 1..MaxCreates, loaded \in load_store :
      /\ given' = [fn |-> "close", id |-> id, title |-> <<>>, body |-> <<>>]
      /\ IF \E i \in 1..Len(loaded.issues) : loaded.issues[i].id = id
         THEN \E saved \in save_store(
                  [loaded EXCEPT
                     !.issues[FindIssue(loaded.issues, id)].state = "closed"]) :
                /\ store_file' = saved.file
                /\ returned' = [returned EXCEPT !.res = saved.res, !.id = 0]
         ELSE /\ store_file' = store_file
              /\ returned' = [returned EXCEPT !.res = "Local issue not found", !.id = 0]
      /\ UNCHANGED progVars

\* no file of local issues yet, no call made
InitStore ==
    /\ Startup
    /\ config = None
    /\ given = [fn |-> "none", id |-> 0, title |-> <<>>, body |-> <<>>]
    /\ returned = [res |-> "none", id |-> 0, created |-> <<>>]
    /\ store_file = None

SpecStore ==
    InitStore /\ [][CreateLocalIssue \/ EditLocalIssue \/ CloseLocalIssue]_vars

-----------------------------------------------------------------------------
(* Vocabulary of the properties                                            *)

\* sub occurs in s as a run of consecutive elements
Contains(s, sub) ==
    \E i \in 0..(Len(s) - Len(sub)) : SubSeq(s, i + 1, i + Len(sub)) = sub

Cmds(cs) == [i \in 1..Len(cs) |-> cs[i].cmd]

ProvisionOrder == <<"worktree-add", "new-session", "split-window", "send-keys">>
TeardownOrder == <<"kill-session", "worktree-remove", "branch-delete">>
ListingCmds == {"worktree-list", "issue-list", "repo-list"}

\* the calls of the last key that are not listings
Workflow(cs) == LET act(c) == c.cmd \notin ListingCmds IN SelectSeq(cs, act)

\* the text a failed call leaves for the operator: what the command wrote
\* to standard error (trimmed), or the text of the error that kept it from running
MessagesOf(res) ==
    IF res = "spawn" THEN IoErrors ELSE {Trim(e) : e \in Stderrs}

ProtectedNames == {MainName, MasterName}

CursorValid(s, n) == IF n = 0 THEN selected_card[s] = 0 ELSE selected_card[s] < n

\* the cursor of section s is an index into the list of section s
CursorInList(s) == CursorValid(s, Len(section_cards(s)))

ModeIs(kind) == screen = "Board" /\ mode.kind = kind

\* the card under the cursor of section s, as an Option
SelectedIn(s) == Get(section_cards(s), selected_card[s])

\* the number of the tracker issue an issue card was built from
IssueNumberOf(card) ==
    LET i == CHOOSE j \in 1..Len(IssueUniverse) : IssueCard(IssueUniverse[j]) = card
    IN  Unwrap(IssueUniverse[i].number)

\* the part of r after its last '/', the whole of r when it has none
IsLastSegment(seg, r) ==
    /\ Len(seg) <= Len(r)
    /\ SubSeq(r, Len(r) - Len(seg) + 1, Len(r)) = seg
    /\ "/" \notin Range(seg)
    /\ Len(seg) < Len(r) => r[Len(r) - Len(seg)] = "/"

-----------------------------------------------------------------------------
(* C1: in every reachable state the cursor of each of the four sections is  *)
(* an index into that section's card list, or 0 when the list is empty.    *)
C1_CursorsInRange == \A s \in Sections : CursorInList(s)

(* C2: in Filtering, after every typed character and every backspace, the  *)
(* cursor of the active section is below the number of cards that pass the  *)
(* query, or 0 when none passes.                                           *)
C2_FilterKeyClampsToVisible ==
    [][(FilteringChar \/ FilteringBackspace) =>
        LET shown == visible_cards(section_cards(active_section)', Some(mode'.query))
        IN  IF Len(shown) = 0 THEN selected_card'[active_section'] = 0
            ELSE selected_card'[active_section'] < Len(shown)]_vars

\* a case of C2: a query is typed, some card passes it and some does not
C2_FilterNarrows ==
    /\ ModeIs("Filtering")
    /\ Len(mode.query) > 0
    /\ LET shown == visible_cards(section_cards(active_section), Some(mode.query))
       IN  0 < Len(shown) /\ Len(shown) < section_card_count(active_section)

(* C3: a worktree displayed as main or master is never a removal           *)
(* candidate: no confirmation for removing it exists, no kill-session,     *)
(* branch-delete or worktree-remove is issued for it, and 'd' on it keeps  *)
(* the mode Normal and sets the explanatory status message.                *)
C3_ProtectedNeverRemoved ==
    /\ [](/\ (IsSome(confirm_modal)
              /\ Unwrap(confirm_modal).on_confirm.kind = "RemoveWorktree")
             => Unwrap(confirm_modal).on_confirm.branch \notin ProtectedNames
          /\ \A i \in 1..Len(calls) :
               calls[i].cmd \in {"kill-session", "branch-delete"}
                   => calls[i].args[1] \notin ProtectedNames)
    /\ [][/\ \A i \in 1..Len(calls') : \A j \in 1..Len(worktrees) :
               (calls'[i].cmd = "worktree-remove"
                /\ worktrees[j].title \in ProtectedNames)
                   => calls'[i].args[1] # worktrees[j].description
          /\ (/\ NormalD1
              /\ IsSome(SelectedIn(1))
              /\ Unwrap(SelectedIn(1)).title \in ProtectedNames)
             => /\ mode' = Normal
                /\ confirm_modal' = None
                /\ calls' = <<>>
                /\ status_message' = Some(<<"Cannot remove main/master worktree">>)]_vars

\* 'd' was pressed on a worktree displayed as master
C3_DeleteOnMasterRefused ==
    /\ ModeIs("Normal")
    /\ active_section = 1
    /\ IsSome(SelectedIn(1))
    /\ Unwrap(SelectedIn(1)).title = MasterName
    /\ status_message = Some(<<"Cannot remove main/master worktree">>)

\* what the workflow of the last key left in the status message
StatusHead == IF IsSome(status_message) THEN Head(Unwrap(status_message)) ELSE ""

\* the status message shows the message of the failed call c
StatusShowsFailure(status, c) ==
    /\ IsSome(status)
    /\ Head(Unwrap(status)) = "Error: "
    /\ \E m \in MessagesOf(c.res) : Contains(Unwrap(status), m)

(* C4: the provisioning commands are issued in the order worktree-add,     *)
(* new-session, split-pane, send-keys; a failure of one of the first three  *)
(* is the last call of the workflow, and the error shown contains the       *)
(* failing command's message.                                              *)
C4_ProvisionInOrderAndAborts ==
    LET w == Workflow(calls)
    IN  (\E i \in 1..Len(calls) : calls[i].cmd \in Range(ProvisionOrder)) =>
            /\ Len(w) <= 4
            /\ Cmds(w) = SubSeq(ProvisionOrder, 1, Len(w))
            /\ \A i \in 1..(Len(w) - 1) : w[i].res = "ok"
            /\ Len(w) < 4 =>
                 /\ w[Len(w)].res # "ok"
                 /\ calls = w
                 /\ StatusShowsFailure(status_message, w[Len(w)])

\* worktree-add failed, and it is the only call of the workflow
C4_WorktreeAddFailed ==
    /\ Len(calls) = 1
    /\ calls[1].cmd = "worktree-add"
    /\ calls[1].res = "fail"
    /\ StatusShowsFailure(status_message, calls[1])

(* C5: when worktree-add, new-session and split-pane succeeded, the        *)
(* workflow reports success whatever send-keys did: the status message is  *)
(* the confirmation, not an error, and no removal, branch deletion or      *)
(* session kill is issued.                                                 *)
C5_SendKeysFailureSwallowed ==
    LET w == Workflow(calls)
    IN  (/\ Len(w) >= 3
         /\ Cmds(SubSeq(w, 1, 3)) = SubSeq(ProvisionOrder, 1, 3)
         /\ \A i \in 1..3 : w[i].res = "ok") =>
            /\ Len(w) = 4
            /\ w[4].cmd = "send-keys"
            /\ StatusHead = "Created worktree and session for issue #"
            /\ ~Contains(Unwrap(status_message), <<"Error: ">>)
            /\ \A i \in 1..Len(calls) : calls[i].cmd \notin Range(TeardownOrder)

\* send-keys did not end well after the three steps before it did
C5_SendKeysFailed ==
    /\ Len(calls) = 5
    /\ Cmds(SubSeq(calls, 1, 4)) = ProvisionOrder
    /\ calls[4].res # "ok"
    /\ StatusHead = "Created worktree and session for issue #"

(* C6: when new-session or split-pane fails, nothing is compensated: no    *)
(* worktree-remove, branch-delete or kill-session call is issued, and the  *)
(* failing call is the last one.                                           *)
C6_NoCompensation ==
    \A i \in 1..Len(calls) :
        (calls[i].cmd \in {"new-session", "split-window"} /\ calls[i].res # "ok") =>
            /\ i = Len(calls)
            /\ \A j \in 1..Len(calls) : calls[j].cmd \notin Range(TeardownOrder)

\* split-pane failed after the worktree and the session were created
C6_SplitFailedAfterSession ==
    /\ Len(calls) = 3
    /\ Cmds(calls) = SubSeq(ProvisionOrder, 1, 3)
    /\ calls[1].res = "ok" /\ calls[2].res = "ok" /\ calls[3].res = "fail"

(* C7: 'w' in Normal mode on a selected issue card leaves the mode Normal; *)
(* on success the worktree list is what the fresh listing returned and the *)
(* status message names the issue number; on failure the worktree list is  *)
(* unchanged and the status message carries the error text.                *)
C7_ProvisionKeyOutcome ==
    [][(NormalW /\ IsSome(SelectedIn(0))) =>
        LET card == Unwrap(SelectedIn(0))
            w == Workflow(calls')
        IN  /\ mode' = Normal
            /\ screen' = "Board"
            /\ Len(w) > 0
            /\ IF w[Len(w)].cmd = "send-keys"
               THEN /\ Len(calls') = Len(w) + 1
                    /\ calls'[Len(calls')].cmd = "worktree-list"
                    /\ worktrees' = calls'[Len(calls')].out
                    /\ status_message' =
                         Some(<<"Created worktree and session for issue #">>
                              \o ToDigits(IssueNumberOf(card)))
               ELSE /\ worktrees' = worktrees
                    /\ StatusShowsFailure(status_message', w[Len(w)])]_vars

\* the workflow succeeded and the board shows the listing made after it
C7_Provisioned ==
    /\ ModeIs("Normal")
    /\ Len(calls) = 5
    /\ calls[4].cmd = "send-keys"
    /\ calls[5].cmd = "worktree-list"
    /\ Len(calls[5].out) = 2
    /\ worktrees = calls[5].out
    /\ status_message = Some(<<"Created worktree and session for issue #", "1", "0">>)

(* C8: for issue N of repository R the workflow uses branch issue-N, the   *)
(* worktree path ../S-issue-N with S the last '/'-separated segment of R,  *)
(* and a session named as the branch with the path as working directory.   *)
C8_ProvisionNames ==
    \A i \in 1..Len(calls) :
        calls[i].cmd \in Range(ProvisionOrder) =>
            /\ IsSome(SelectedIn(0))
            /\ LET n == ToDigits(IssueNumberOf(Unwrap(SelectedIn(0))))
                   branch == <<"i", "s", "s", "u", "e", "-">> \o n
                   IsPath(p) ==
                       \E k \in 1..(Len(repo) + 1) :
                           LET seg == SubSeq(repo, k, Len(repo))
                           IN  /\ IsLastSegment(seg, repo)
                               /\ p = <<".", ".", "/">> \o seg \o <<"-">> \o branch
                   c == calls[i]
               IN  CASE c.cmd = "worktree-add" ->
                            IsPath(c.args[1]) /\ c.args[2] = branch
                     [] c.cmd \in {"new-session", "split-window"} ->
                            c.args[1] = branch /\ IsPath(c.args[2])
                     [] OTHER -> c.args[1] = branch

\* issue 10 of a/w: branch issue-10, path ../w-issue-10, session issue-10
C8_Issue10OfAW ==
    /\ repo = <<"a", "/", "w">>
    /\ Len(calls) >= 2
    /\ calls[1].cmd = "worktree-add"
    /\ calls[1].args = << <<".", ".", "/", "w", "-", "i", "s", "s", "u", "e", "-", "1", "0">>,
                          <<"i", "s", "s", "u", "e", "-", "1", "0">> >>
    /\ calls[2].cmd = "new-session"
    /\ calls[2].args = << <<"i", "s", "s", "u", "e", "-", "1", "0">>,
                          <<".", ".", "/", "w", "-", "i", "s", "s", "u", "e", "-", "1", "0">> >>

\* 'y' on a pending removal of a worktree
ConfirmsRemoval ==
    /\ ConfirmYes
    /\ IsSome(confirm_modal)
    /\ Unwrap(confirm_modal).on_confirm.kind = "RemoveWorktree"

(* C9: teardown issues kill-session, worktree-remove, branch-delete in     *)
(* that order; whenever worktree-remove succeeds the operation succeeds,   *)
(* whatever kill-session and branch-delete did: the worktree list is what  *)
(* the fresh listing returned and the status message names the branch.     *)
C9_TeardownOrderAndBestEffort ==
    [][ConfirmsRemoval =>
        LET a == Unwrap(confirm_modal).on_confirm
            w == Workflow(calls')
        IN  /\ Len(w) >= 2
            /\ Cmds(w) = SubSeq(TeardownOrder, 1, Len(w))
            /\ w[1].args = <<a.branch>>
            /\ w[2].args = <<a.path>>
            /\ w[2].res = "ok" =>
                 /\ Len(w) = 3
                 /\ w[3].args = <<a.branch>>
                 /\ Len(calls') = 4
                 /\ calls'[4].cmd = "worktree-list"
                 /\ worktrees' = calls'[4].out
                 /\ status_message' =
                      Some(<<"Removed worktree '">> \o a.branch \o <<"'">>)]_vars

\* the removal succeeded although kill-session and branch-delete failed
C9_RemovedDespiteFailures ==
    /\ Len(calls) = 4
    /\ Cmds(calls) = TeardownOrder \o <<"worktree-list">>
    /\ calls[1].res # "ok" /\ calls[2].res = "ok" /\ calls[3].res # "ok"
    /\ StatusHead = "Removed worktree '"
    /\ worktrees = calls[4].out

(* C10: when worktree-remove fails, branch-delete is not run (the failed   *)
(* call is the last one, after the session kill), the error is shown in    *)
(* the status message and the board's worktree list is unchanged.          *)
C10_RemoveFailureStops ==
    [][ConfirmsRemoval =>
        \A i \in 1..Len(calls') :
            (calls'[i].cmd = "worktree-remove" /\ calls'[i].res # "ok") =>
                /\ Cmds(calls') = SubSeq(TeardownOrder, 1, 2)
                /\ worktrees' = worktrees
                /\ StatusShowsFailure(status_message', calls'[i])]_vars

\* worktree-remove failed after the session kill ran
C10_RemoveFailed ==
    /\ Len(calls) = 2
    /\ Cmds(calls) = SubSeq(TeardownOrder, 1, 2)
    /\ calls[1].res = "ok"
    /\ calls[2].res = "fail"
    /\ StatusShowsFailure(status_message, calls[2])
    /\ Len(worktrees) > 0

(* C11: in every reachable state the issue form is present exactly when   *)
(* the mode is CreatingIssue and the confirmation is present exactly when  *)
(* the mode is Confirming; so every step that leaves either mode destroys  *)
(* its modal in that step.                                                 *)
C11_ModalsMatchMode ==
    /\ IsSome(issue_modal) <=> mode.kind = "CreatingIssue"
    /\ IsSome(confirm_modal) <=> mode.kind = "Confirming"

\* 'y' has just left Confirming by closing an issue: no modal is left
C11_LeftConfirmingByYes ==
    /\ ModeIs("Normal")
    /\ StatusHead = "Closed issue #"
    /\ confirm_modal = None
    /\ issue_modal = None

(* C12: 'n', 'N' or Esc in Confirming returns to Board/Normal, discards    *)
(* the pending action, issues no external call and leaves the issue list,  *)
(* the worktree list and all cursors unchanged.                            *)
C12_CancelChangesNothing ==
    [][ConfirmNo =>
        /\ screen' = "Board"
        /\ mode' = Normal
        /\ confirm_modal' = None
        /\ calls' = <<>>
        /\ issues' = issues
        /\ worktrees' = worktrees
        /\ selected_card' = selected_card
        /\ active_section' = active_section]_vars

\* a removal of the worktree of issue-1 is pending, the cursor on its card
C12_RemovalPending ==
    /\ ModeIs("Confirming")
    /\ IsSome(confirm_modal)
    /\ Unwrap(confirm_modal).on_confirm.kind = "RemoveWorktree"
    /\ Unwrap(confirm_modal).on_confirm.branch = <<"i", "s", "s", "u", "e", "-", "1">>
    /\ selected_card[1] = 1

\* how many calls of cs run cmd
CountOf(cs, cmd) == Cardinality({i \in 1..Len(cs) : cs[i].cmd = cmd})

(* C13: the pending action holds what the selected card said when 'd' was  *)
(* pressed (the issue number, or the worktree's path and branch); 'y' in   *)
(* Confirming runs that action once with that payload, always ends in      *)
(* Board/Normal with a status message, and on success replaces the issue   *)
(* list (CloseIssue) or the worktree list (RemoveWorktree) by a fresh       *)
(* listing.                                                                *)
C13_ConfirmRunsPendingOnce ==
    /\ [][(NormalD0 /\ mode'.kind = "Confirming") =>
            /\ IsSome(SelectedIn(0))
            /\ Unwrap(confirm_modal').on_confirm.kind = "CloseIssue"
            /\ Unwrap(confirm_modal').on_confirm.number =
                   IssueNumberOf(Unwrap(SelectedIn(0)))]_vars
    /\ [][(NormalD1 /\ mode'.kind = "Confirming") =>
            /\ IsSome(SelectedIn(1))
            /\ Unwrap(confirm_modal').on_confirm.kind = "RemoveWorktree"
            /\ Unwrap(confirm_modal').on_confirm.branch = Unwrap(SelectedIn(1)).title
            /\ Unwrap(confirm_modal').on_confirm.path =
                   Unwrap(SelectedIn(1)).description]_vars
    /\ [][ConfirmYes =>
            LET a == Unwrap(confirm_modal).on_confirm
                w == Workflow(calls')
                last == calls'[Len(calls')]
            IN  /\ IsSome(confirm_modal)
                /\ screen' = "Board"
                /\ mode' = Normal
                /\ confirm_modal' = None
                /\ IsSome(status_message')
                /\ IF a.kind = "CloseIssue"
                   THEN /\ Len(w) = 1
                        /\ w[1].cmd = "issue-close"
                        /\ w[1].args = <<repo, ToDigits(a.number)>>
                        /\ worktrees' = worktrees
                        /\ IF w[1].res = "ok"
                           THEN /\ Len(calls') = 2
                                /\ last.cmd = "issue-list"
                                /\ issues' = last.out
                           ELSE calls' = w /\ issues' = issues
                   ELSE /\ CountOf(w, "worktree-remove") = 1
                        /\ CountOf(w, "issue-close") = 0
                        /\ \A i \in 1..Len(w) :
                             /\ w[i].cmd \in Range(TeardownOrder)
                             /\ w[i].args = IF w[i].cmd = "worktree-remove"
                                            THEN <<a.path>> ELSE <<a.branch>>
                        /\ issues' = issues
                        /\ IF \E i \in 1..Len(w) :
                                w[i].cmd = "worktree-remove" /\ w[i].res = "ok"
                           THEN /\ Len(calls') = Len(w) + 1
                                /\ last.cmd = "worktree-list"
                                /\ worktrees' = last.out
                           ELSE calls' = w /\ worktrees' = worktrees]_vars

\* issue 10 was closed by 'y' and the issue list is the listing made after
C13_Issue10Closed ==
    /\ ModeIs("Normal")
    /\ Len(calls) = 2
    /\ calls[1].cmd = "issue-close"
    /\ calls[1].args = <<repo, <<"1", "0">>>>
    /\ calls[1].res = "ok"
    /\ calls[2].cmd = "issue-list"
    /\ issues = calls[2].out
    /\ status_message = Some(<<"Closed issue #", "1", "0">>)

(* C14: the program ends only on 'q' or Esc in Board/Normal, or on Esc in  *)
(* RepoSelect/Typing while no repository has been chosen; Esc in Filtering, *)
(* CreatingIssue, Confirming, RepoSelect/Picking, or RepoSelect/Typing with *)
(* a repository chosen never ends it.                                      *)
C14_QuitOnlyFromNormalOrUnchosen ==
    /\ [][(running /\ ~running') =>
            \/ NormalQuit /\ screen = "Board" /\ mode.kind = "Normal"
            \/ /\ TypingEsc
               /\ screen = "RepoSelect"
               /\ repo_select.phase = "Typing"
               /\ Len(repo) = 0]_vars
    /\ [][(\/ FilteringEsc
           \/ ModalEsc
           \/ ConfirmNo
           \/ PickingEsc
           \/ TypingEsc /\ Len(repo) > 0) => running']_vars

\* Esc in RepoSelect/Typing with a repository chosen has led back to the board
C14_EscBackToBoard ==
    /\ running
    /\ screen = "Board"
    /\ repo_select.phase = "Typing"
    /\ Len(repo) > 0
    /\ calls = <<>>

(* C15: a status message is only ever shown in Board/Normal, and every     *)
(* key handled in Board/Normal clears it before acting: after such a key a *)
(* status message is present only if that key's own action set it (a       *)
(* provisioning that ran, or a refused removal of main/master), so no      *)
(* message outlives the key after the one that produced it.                *)
C15_StatusLastsOneKey ==
    /\ [](IsSome(status_message) => ModeIs("Normal"))
    /\ [][(screen = "Board" /\ mode.kind = "Normal" /\ IsSome(status_message')) =>
            \/ NormalW /\ Len(calls') > 0
            \/ /\ NormalD1
               /\ IsSome(SelectedIn(1))
               /\ Unwrap(SelectedIn(1)).title \in ProtectedNames
               /\ status_message' = Some(<<"Cannot remove main/master worktree">>)]_vars

\* a key of Board/Normal has cleared what was shown and set its own message
C15_RefusalShown ==
    /\ ModeIs("Normal")
    /\ active_section = 1
    /\ calls = <<>>
    /\ IsSome(SelectedIn(1))
    /\ Unwrap(SelectedIn(1)).title = MainName
    /\ StatusHead = "Cannot remove main/master worktree"

\* the steps whose failure the workflows drop by design
BestEffortCmds == {"kill-session", "branch-delete", "send-keys"}

\* the commands sent to the tracker, to git and to tmux
CollaboratorCmds ==
    {"issue-list", "issue-create", "issue-close", "repo-list", "worktree-list",
     "worktree-add", "worktree-remove", "branch-delete", "new-session",
     "split-window", "send-keys", "kill-session"}

\* text carries the message of the failed call c
Reports(text, c) ==
    IsSome(text) /\ \E m \in MessagesOf(c.res) : Contains(Unwrap(text), m)

(* C16: every failed call to an external collaborator, the best-effort     *)
(* steps (session kill, branch delete, assistant dispatch) aside, is shown  *)
(* to the operator as text in the status message or in the error of the    *)
(* open form; the issue and worktree listings made at startup, on          *)
(* repository selection and on refresh are among these calls.              *)
C16_FailuresReported ==
    \A i \in 1..Len(calls) :
        (/\ calls[i].res # "ok"
         /\ calls[i].cmd \in CollaboratorCmds \ BestEffortCmds) =>
            \/ Reports(status_message, calls[i])
            \/ IsSome(issue_modal) /\ Reports(Unwrap(issue_modal).error, calls[i])
            \/ screen = "RepoSelect" /\ Reports(repo_select.error, calls[i])

\* t has nothing in it but white space
IsBlank(t) == \A i \in 1..Len(t) : t[i] \in {" ", "\n", "\t", "\r"}

(* C17: Ctrl+S in CreatingIssue with a title that is empty after trimming  *)
(* sets the form's error, issues no call, leaves the issue list alone and  *)
(* stays in CreatingIssue with the typed title and body kept.              *)
C17_EmptyTitleRejected ==
    [][(InModal /\ IsBlank(Unwrap(issue_modal).title) /\ ModalSubmit) =>
        /\ calls' = <<>>
        /\ issues' = issues
        /\ screen' = "Board"
        /\ mode' = CreatingIssue
        /\ IsSome(issue_modal')
        /\ Unwrap(issue_modal').error = Some(<<"Title cannot be empty">>)
        /\ Unwrap(issue_modal').title = Unwrap(issue_modal).title
        /\ Unwrap(issue_modal').body = Unwrap(issue_modal).body]_vars

\* a title of one blank was submitted and refused, the body typed is kept
C17_BlankTitleRefused ==
    /\ ModeIs("CreatingIssue")
    /\ IsSome(issue_modal)
    /\ Unwrap(issue_modal).title = <<" ">>
    /\ Unwrap(issue_modal).body = <<"a">>
    /\ Unwrap(issue_modal).error = Some(<<"Title cannot be empty">>)
    /\ calls = <<>>

(* C18: Ctrl+S in CreatingIssue with a title that is not empty calls       *)
(* create-issue once; on success the issue list is what the fresh listing  *)
(* returned, the form is destroyed and the mode is Normal; on failure the   *)
(* mode stays CreatingIssue, the error is attached to the form, the typed   *)
(* title and body are kept and the issue list is unchanged.                *)
C18_SubmitCreatesOnce ==
    [][(InModal /\ ~IsBlank(Unwrap(issue_modal).title) /\ ModalSubmit) =>
        /\ Len(calls') >= 1
        /\ CountOf(calls', "issue-create") = 1
        /\ calls'[1].cmd = "issue-create"
        /\ calls'[1].args[1] = repo
        /\ calls'[1].args[3] = Unwrap(issue_modal).body
        /\ screen' = "Board"
        /\ IF calls'[1].res = "ok"
           THEN /\ Len(calls') = 2
                /\ calls'[2].cmd = "issue-list"
                /\ issues' = calls'[2].out
                /\ issue_modal' = None
                /\ mode' = Normal
           ELSE /\ Len(calls') = 1
                /\ mode' = CreatingIssue
                /\ IsSome(issue_modal')
                /\ Reports(Unwrap(issue_modal').error, calls'[1])
                /\ Unwrap(issue_modal').title = Unwrap(issue_modal).title
                /\ Unwrap(issue_modal').body = Unwrap(issue_modal).body
                /\ issues' = issues]_vars

\* create-issue failed: the form is still open with the error and the title
C18_CreateFailed ==
    /\ ModeIs("CreatingIssue")
    /\ Len(calls) = 1
    /\ calls[1].cmd = "issue-create"
    /\ calls[1].res = "fail"
    /\ IsSome(issue_modal)
    /\ Unwrap(issue_modal).title = <<"a">>
    /\ Reports(Unwrap(issue_modal).error, calls[1])

(* C19: an error of a form (owner form: empty owner or failed repository  *)
(* fetch; issue form: empty title or failed create), once set, stays       *)
(* through every key that only edits text or moves the focus, and goes     *)
(* away only when the form is dismissed or a later submit passes           *)
(* validation.                                                             *)
C19_FormErrorSticks ==
    /\ [][(TypingBackspace \/ TypingChar) =>
            repo_select'.error = repo_select.error]_vars
    /\ [][(ModalTab \/ ModalEnter \/ ModalBackspace \/ ModalChar) =>
            /\ IsSome(issue_modal')
            /\ Unwrap(issue_modal').error = Unwrap(issue_modal).error]_vars
    /\ [][(/\ screen = "RepoSelect"
           /\ IsSome(repo_select.error)
           /\ ~IsSome(repo_select'.error)) =>
            TypingEnter /\ ~IsBlank(repo_select.input)]_vars
    /\ [][(/\ IsSome(issue_modal)
           /\ IsSome(Unwrap(issue_modal).error)
           /\ (issue_modal' = None \/ ~IsSome(Unwrap(issue_modal').error))) =>
            \/ ModalEsc /\ issue_modal' = None
            \/ /\ ModalSubmit
               /\ ~IsBlank(Unwrap(issue_modal).title)
               /\ issue_modal' = None
               /\ Len(calls') > 0
               /\ calls'[1].res = "ok"]_vars

\* the owner form still shows "empty owner" after a character was typed
C19_OwnerErrorAfterTyping ==
    /\ screen = "RepoSelect"
    /\ repo_select.phase = "Typing"
    /\ repo_select.error = Some(<<"Please enter an org or user name">>)
    /\ repo_select.input = <<"a">>

(* C20: in every reachable state of the repository picker the cursor is    *)
(* below the number of filtered repositories, and 0 when there is none.    *)
C20_RepoCursorInRange ==
    IF Len(repo_select.filtered_repos) = 0
    THEN repo_select.selected = 0
    ELSE repo_select.selected < Len(repo_select.filtered_repos)

\* a query that keeps one of two repositories, the cursor on the one kept
C20_FilteredToOne ==
    /\ screen = "RepoSelect"
    /\ repo_select.phase = "Picking"
    /\ Len(repo_select.repos) = 2
    /\ repo_select.filter_query = <<"w">>
    /\ Len(repo_select.filtered_repos) = 1
    /\ repo_select.selected = 0

\* p is what r has before its first '/', nothing when r has no '/'
IsOwnerSegment(p, r) ==
    IF "/" \in Range(r)
    THEN /\ Len(p) < Len(r)
         /\ SubSeq(r, 1, Len(p)) = p
         /\ r[Len(p) + 1] = "/"
         /\ "/" \notin Range(p)
    ELSE p = <<>>

(* C21: Enter in Board/Normal opens the repository screen in phase Typing  *)
(* with repos, filtered_repos, filter_query and error empty and selected   *)
(* 0, whatever the picker held when it was last left; input is the part of *)
(* the current repository before its first '/', empty when it has none.    *)
C21_EntryResetsPicker ==
    [][NormalEnter =>
        /\ screen' = "RepoSelect"
        /\ repo_select'.phase = "Typing"
        /\ repo_select'.repos = <<>>
        /\ repo_select'.filtered_repos = <<>>
        /\ repo_select'.filter_query = <<>>
        /\ repo_select'.error = None
        /\ repo_select'.selected = 0
        /\ IsOwnerSegment(repo_select'.input, repo)
        /\ repo' = repo]_vars

\* back on the repository screen of a/w: owner seeded, nothing left of the
\* listing the repository was picked from
C21_ReenteredFromBoard ==
    /\ screen = "RepoSelect"
    /\ repo = <<"a", "/", "w">>
    /\ repo_select.phase = "Typing"
    /\ repo_select.input = <<"a">>
    /\ repo_select.repos = <<>>
    /\ repo_select.filtered_repos = <<>>
    /\ repo_select.error = None
    /\ calls = <<>>

\* the four card lists of the board, by section
CardLists == <<issues, worktrees, pull_requests, sessions>>

(* C22: in Board/Normal, Tab sets active_section to (active_section + 1)   *)
(* mod 4 and Shift+Tab to (active_section - 1) mod 4; the result is within *)
(* 0..3, each key undoes the other, and the mode, the four card lists and  *)
(* the four cursors are unchanged.                                         *)
C22_TabCyclesSections ==
    [][/\ NormalTab =>
            /\ active_section' = (active_section + 1) % 4
            /\ (active_section' + 3) % 4 = active_section
       /\ NormalBackTab =>
            /\ active_section' = (active_section - 1) % 4
            /\ (active_section' + 1) % 4 = active_section
       /\ (NormalTab \/ NormalBackTab) =>
            /\ active_section' \in 0..3
            /\ mode' = mode
            /\ CardLists' = CardLists
            /\ selected_card' = selected_card]_vars

\* the last section active, the cursor of the first one still on its
\* second card
C22_LastSectionActive ==
    /\ InMode("Normal")
    /\ active_section = 3
    /\ Len(issues) = 2
    /\ selected_card[0] = 1

(* C23: in Board/Normal, outside section 0 no key opens the issue form,    *)
(* replaces a card list or issues an external command ('n' and 'w'), and   *)
(* outside sections 0 and 1 no key opens a confirmation ('d'): there the   *)
(* keys change neither mode nor modal nor card list.                       *)
C23_SectionGuards ==
    [][InMode("Normal") =>
        /\ active_section # 0 =>
             /\ mode'.kind # "CreatingIssue"
             /\ issue_modal' = issue_modal
             /\ CardLists' = CardLists
             /\ calls' = <<>>
        /\ active_section \notin {0, 1} =>
             /\ mode'.kind # "Confirming"
             /\ confirm_modal' = confirm_modal]_vars

\* a key handled in section 2 with issues on the board: nothing opened,
\* nothing called
C23_KeyInThirdSection ==
    /\ InMode("Normal")
    /\ active_section = 2
    /\ Len(issues) = 2
    /\ issue_modal = None
    /\ confirm_modal = None
    /\ status_message = None
    /\ calls = <<>>

(* C24: Up and Down (k and j in Normal mode) move only the active          *)
(* section's cursor, by one; Up at index 0 and Down at or past the last    *)
(* index of the section's card list, or in an empty section, leave it      *)
(* unchanged; the other three cursors, the active section, the mode and    *)
(* the card lists are not modified.                                        *)
C24_CursorMovesByOne ==
    [][LET s == active_section
           n == Len(CardLists[s + 1])
       IN  /\ (NormalUp \/ FilteringUp) =>
                selected_card'[s] =
                    IF selected_card[s] = 0 THEN 0 ELSE selected_card[s] - 1
           /\ (NormalDown \/ FilteringDown) =>
                selected_card'[s] =
                    IF n = 0 \/ selected_card[s] >= n - 1
                    THEN selected_card[s] ELSE selected_card[s] + 1
           /\ (NormalUp \/ FilteringUp \/ NormalDown \/ FilteringDown) =>
                /\ \A t \in 0..3 : t # s => selected_card'[t] = selected_card[t]
                /\ active_section' = s
                /\ mode' = mode
                /\ CardLists' = CardLists]_vars

\* the cursor of the worktree section moved down to its second card
C24_MovedDown ==
    /\ InMode("Normal")
    /\ active_section = 1
    /\ Len(worktrees) = 2
    /\ selected_card[1] = 1
    /\ selected_card[0] = 0

(* C25: Esc in Board/Filtering returns to Board/Normal and discards the    *)
(* query; '/' in Board/Normal enters Filtering with an empty query, and    *)
(* Filtering is never entered with anything else; outside Filtering no     *)
(* filter applies: every section shows all of its cards.                   *)
C25_FilterEpisodesIsolated ==
    /\ [](mode.kind # "Filtering" =>
            \A s \in 0..3 :
                visible_cards(CardLists[s + 1], column_query(s)) = CardLists[s + 1])
    /\ [][/\ FilteringEsc => mode' = Normal
          /\ NormalSlash => mode' = Filtering(<<>>)
          /\ (mode.kind # "Filtering" /\ mode'.kind = "Filtering") =>
                mode'.query = <<>>]_vars

\* a filtering episode opened on a board of two issues, nothing typed yet
C25_FreshFilter ==
    /\ InMode("Filtering")
    /\ mode.query = <<>>
    /\ Len(issues) = 2
    /\ status_message = None

\* q is an ordered, not necessarily contiguous, subsequence of t
IsSubsequence(q, t) ==
    \E f \in [1..Len(q) -> 1..Len(t)] :
        /\ \A i, j \in 1..Len(q) : i < j => f[i] < f[j]
        /\ \A i \in 1..Len(q) : t[f[i]] = q[i]

(* C26: fuzzy_match(query, target) is true exactly when the lower-cased    *)
(* query is an ordered, not necessarily contiguous, subsequence of the     *)
(* lower-cased target.                                                     *)
C26_MatchIsSubsequence ==
    returned # <<>> =>
        (returned[1].matched <=>
            IsSubsequence(ToLowercase(given.query), ToLowercase(given.target)))

\* "gh" was matched against "github"
C26_GhMatchesGithub ==
    /\ given.query = <<"g", "h">>
    /\ given.target = <<"g", "i", "t", "h", "u", "b">>
    /\ returned = <<[matched |-> TRUE, itself |-> TRUE, extended |-> TRUE,
                     empty |-> TRUE]>>

(* C27: fuzzy_match(t, t) is true for every t; when fuzzy_match(q, t) is   *)
(* true, so is fuzzy_match(q, t followed by any suffix); and               *)
(* fuzzy_match("", t) is true for every t.                                 *)
C27_MatchLaws ==
    returned # <<>> =>
        /\ returned[1].itself
        /\ returned[1].matched => returned[1].extended
        /\ returned[1].empty

\* a query that matches only once the target is extended
C27_MatchedAfterExtension ==
    /\ returned # <<>>
    /\ given.query = <<"G", "h">>
    /\ given.target = <<"G", "g">>
    /\ given.suffix = <<"h">>
    /\ ~returned[1].matched
    /\ returned[1].extended
    /\ returned[1].itself

\* out is made of the elements of inp at the indices of kept, in the
\* order of inp
StableSelection(out, inp, kept) ==
    \E f \in [1..Len(out) -> 1..Len(inp)] :
        /\ \A i, j \in 1..Len(out) : i < j => f[i] < f[j]
        /\ \A i \in 1..Len(out) : out[i] = inp[f[i]]
        /\ {f[i] : i \in 1..Len(out)} = kept

(* C28: the filtered card list is exactly the cards whose title or         *)
(* description fuzzy-matches the query, in their original order; the       *)
(* filtered repository list is exactly the names that fuzzy-match it, in   *)
(* their original order; an empty query keeps every element.               *)
C28_FilterIsStableSelection ==
    returned # <<>> =>
        LET inp == given.list
            q == given.query
        IN  /\ given.kind = "cards" =>
                 StableSelection(returned[1], inp,
                     {j \in 1..Len(inp) : \/ fuzzy_match(q, inp[j].title)
                                          \/ fuzzy_match(q, inp[j].description)})
            /\ given.kind = "names" =>
                 StableSelection(returned[1], inp,
                     {j \in 1..Len(inp) : fuzzy_match(q, inp[j])})
            /\ q = <<>> => returned[1] = inp

\* the query "hG" on two cards: the first kept for its description alone,
\* the second dropped
C28_KeptByDescription ==
    /\ given.kind = "cards"
    /\ given.query = <<"h", "G">>
    /\ given.list = <<FilterCard(<<"h">>, <<"h", "g">>), FilterCard(<<"g">>, <<"h">>)>>
    /\ returned = << <<FilterCard(<<"h">>, <<"h", "g">>)>> >>

(* C29: the description derived from an issue body never exceeds 80       *)
(* characters: a body longer than 80 characters yields its first 77        *)
(* characters followed by "...", a body of 1 to 80 characters is shown     *)
(* unmodified, an empty body yields "No description", and                  *)
(* full_description is absent exactly when the body is empty.              *)
C29_DescriptionWithin80 ==
    returned # <<>> =>
        LET body == given.body
            r == returned[1]
        IN  /\ ~r.panicked
            /\ Len(Unwrap(r.card).description) <= DescMax
            /\ Len(body) > DescMax =>
                 Unwrap(r.card).description = SubSeq(body, 1, DescKeep) \o Ellipsis
            /\ Len(body) \in 1..DescMax => Unwrap(r.card).description = body
            /\ Len(body) = 0 => Unwrap(r.card).description = NoDescription
            /\ Unwrap(r.card).full_description = None <=> Len(body) = 0

\* the records of a listing that become cards: a path line, no "bare" line
IsListed(r) == IsSome(r.path) /\ ~r.bare

\* card shows record r: named after the branch, or after the last segment
\* of the path when there is none
ShowsRecord(card, r) ==
    /\ card.description = Unwrap(r.path)
    /\ IF IsSome(r.branch) THEN card.title = Unwrap(r.branch)
       ELSE IsLastSegment(card.title, Unwrap(r.path))
    /\ card.tag = IF card.title \in {MainName, MasterName}
                  THEN <<"p","r","i","m","a","r","y">>
                  ELSE <<"b","r","a","n","c","h">>
    /\ \A n \in 1..2 :
          card.title = IssuePrefix \o ToDigits(n) =>
              card.related = << IssuePrefix \o ToDigits(n) >>

(* C30: parsing a worktree listing yields, in input order, exactly one     *)
(* card per record that has a path line and no "bare" line; the card is    *)
(* named after the branch (prefix refs/heads/ stripped) or else the last   *)
(* path segment, tagged "primary" exactly when that name is main or        *)
(* master and "branch" otherwise, and a name issue-N makes it related to   *)
(* exactly the card id issue-N.                                            *)
C30_WorktreeCardsFollowRecords ==
    returned # <<>> =>
        LET listed == SelectSeq(given.records, IsListed)
            cards == returned[1]
        IN  /\ Len(cards) = Len(listed)
            /\ \A i \in 1..Len(listed) : ShowsRecord(cards[i], listed[i])

\* a bare record and a detached worktree at /r/issue-2: one card, named
\* issue-2 and related to the issue card issue-2
C30_DetachedIssueWorktree ==
    /\ Len(given.records) = 2
    /\ given.records[1].bare
    /\ given.records[2].path = Some(<<"/","r","/">> \o IssuePrefix \o <<"2">>)
    /\ returned # <<>>
    /\ Len(returned[1]) = 1
    /\ returned[1][1].title = IssuePrefix \o <<"2">>
    /\ returned[1][1].related = << IssuePrefix \o <<"2">> >>
    /\ returned[1][1].tag = <<"b","r","a","n","c","h">>

\* the ids of a card list are pairwise distinct
DistinctIds(cards) ==
    \A i, j \in 1..Len(cards) : cards[i].id = cards[j].id => i = j

(* C31: after a load the card ids of a section are pairwise distinct, for  *)
(* every listing the collaborator can return: here, for every worktree     *)
(* listing whose records carry pairwise distinct paths, records without a  *)
(* branch line included.                                                   *)
C31_SectionIdsDistinct ==
    (/\ returned # <<>>
     /\ \A i, j \in 1..Len(given.records) :
           given.records[i].path = given.records[j].path => i = j)
        => DistinctIds(returned[1])

(* C32: the phase Loading lasts only from a valid Enter in Typing to the   *)
(* end of the repository-listing call: the loading indicator is drawn      *)
(* before the call is issued, only that Enter draws it, and whenever a key *)
(* is read the phase is Typing or Picking, never Loading.                  *)
C32_LoadingIsTransient ==
    /\ [](repo_select.phase \in {"Typing", "Picking"})
    /\ [][/\ "repo-list" \in Range(Cmds(calls')) =>
               /\ Cmds(calls') = <<"draw", "repo-list">>
               /\ calls'[1].args = <<"Loading">>
          /\ "draw" \in Range(Cmds(calls')) =>
               /\ InTyping
               /\ Len(Trim(repo_select.input)) > 0
               /\ "repo-list" \in Range(Cmds(calls'))]_vars

\* back in Typing with an error after the indicator was drawn and the
\* listing failed
C32_ListingFailedAfterLoading ==
    /\ InTyping
    /\ Len(calls) = 2
    /\ calls[1].cmd = "draw"
    /\ calls[1].args = <<"Loading">>
    /\ calls[2].cmd = "repo-list"
    /\ calls[2].res = "fail"
    /\ IsSome(repo_select.error)

(* C33: Enter in RepoSelect/Typing with an owner that is empty after       *)
(* trimming sets an error, issues no repository-listing call and stays in  *)
(* Typing; with a non-empty owner, a listing that fails or holds no        *)
(* repository returns to Typing with an error and leaves repos untouched,  *)
(* and a non-empty listing enters Picking with selected 0, an empty filter *)
(* query and filtered_repos equal to repos.                                *)
C33_OwnerEnterOutcome ==
    [][(InTyping /\ TypingEnter) =>
        LET listed == \E i \in 1..Len(calls') : calls'[i].cmd = "repo-list"
            answer == calls'[Len(calls')]
        IN  /\ listed <=> ~IsBlank(repo_select.input)
            /\ ~listed =>
                 /\ IsSome(repo_select'.error)
                 /\ repo_select'.phase = "Typing"
                 /\ repo_select'.repos = repo_select.repos
            /\ (listed /\ (answer.res # "ok" \/ Len(answer.out) = 0)) =>
                 /\ IsSome(repo_select'.error)
                 /\ repo_select'.phase = "Typing"
                 /\ repo_select'.repos = repo_select.repos
            /\ (listed /\ answer.res = "ok" /\ Len(answer.out) > 0) =>
                 /\ repo_select'.phase = "Picking"
                 /\ repo_select'.selected = 0
                 /\ repo_select'.filter_query = <<>>
                 /\ repo_select'.repos = answer.out
                 /\ repo_select'.filtered_repos = repo_select'.repos
                 /\ repo_select'.error = None]_vars

\* an owner with no repository, asked for after a listing of two was left
\* with Esc: the error is shown and the two are still held
C33_EmptyListingKeepsRepos ==
    /\ InTyping
    /\ Len(calls) = 2
    /\ calls[2].cmd = "repo-list"
    /\ calls[2].res = "ok"
    /\ Len(calls[2].out) = 0
    /\ IsSome(repo_select.error)
    /\ Len(repo_select.repos) = 2

(* C34: Enter in RepoSelect/Picking with a non-empty filtered list chooses *)
(* filtered_repos[selected]: the configuration is written with it, the     *)
(* issue and worktree lists are fetched again, the four cursors are reset  *)
(* to 0, repo is set to it and the screen becomes Board in Normal mode,    *)
(* even when the configuration cannot be written; with an empty filtered   *)
(* list Enter changes nothing and writes nothing.                          *)
C34_PickChoosesRepository ==
    [][(InPicking /\ PickingEnter) =>
        IF Len(repo_select.filtered_repos) > 0
        THEN LET chosen == repo_select.filtered_repos[repo_select.selected + 1]
             IN  /\ Cmds(calls') = <<"save-config", "issue-list", "worktree-list">>
                 /\ calls'[1].args = <<chosen>>
                 /\ calls'[1].res = "ok" => config' = Some(chosen)
                 /\ calls'[2].args = <<chosen>>
                 /\ issues' = calls'[2].out
                 /\ worktrees' = calls'[3].out
                 /\ \A s \in 0..3 : selected_card'[s] = 0
                 /\ repo' = chosen
                 /\ screen' = "Board"
                 /\ mode' = Normal
        ELSE /\ calls' = <<>>
             /\ UNCHANGED <<repoVars, boardVars>>]_vars

\* on the board of a/x, chosen although its configuration was not written
C34_ChosenWithoutConfig ==
    /\ screen = "Board"
    /\ repo = <<"a", "/", "x">>
    /\ config # Some(repo)
    /\ Len(calls) = 3
    /\ calls[1].cmd = "save-config"
    /\ calls[1].res = "fail"
    /\ Len(issues) = 2

(* C35: whenever the screen is RepoSelect the board mode is Normal and     *)
(* neither modal is present; the repository screen is entered only from    *)
(* Board/Normal (or shown at startup), and leaving it for the board always *)
(* lands in Board/Normal.                                                  *)
C35_RepoSelectOverNormalBoard ==
    /\ [](screen = "RepoSelect" =>
            mode = Normal /\ issue_modal = None /\ confirm_modal = None)
    /\ [][/\ (screen = "Board" /\ screen' = "RepoSelect") => InMode("Normal")
          /\ (screen = "RepoSelect" /\ screen' = "Board") =>
                mode' = Normal /\ issue_modal' = None /\ confirm_modal' = None]_vars

\* the repository screen opened over a board that holds issues
C35_PickerOverBoard ==
    /\ InTyping
    /\ Len(repo) > 0
    /\ Len(issues) = 2
    /\ mode = Normal
    /\ issue_modal = None
    /\ confirm_modal = None

C37_DrawnSelectionIsActedOn ==
    (InMode("Filtering") /\ Len(mode.query) > 0) => drawn_selected = related_source

(* C38: in Board/Filtering a character key, the command keys included, is *)
(* appended to the query; no key pressed in Filtering terminates the       *)
(* application, opens a modal, changes active_section, changes a card list *)
(* or issues an external call.                                             *)
C38_FilterKeysOnlyEdit ==
    [][InMode("Filtering") =>
        /\ running'
        /\ screen' = "Board"
        /\ mode'.kind \in {"Filtering", "Normal"}
        /\ issue_modal' = None
        /\ confirm_modal' = None
        /\ active_section' = active_section
        /\ CardLists' = CardLists
        /\ calls' = <<>>
        /\ FilteringChar =>
             \E c \in QueryChars : mode' = Filtering(Append(mode.query, c))]_vars

\* 'w' typed into the filter over a selected issue: it is in the query and
\* no worktree was made
C38_CommandKeyTyped ==
    /\ mode = Filtering(<<"w">>)
    /\ active_section = 0
    /\ Len(issues) = 2
    /\ Len(worktrees) = 0
    /\ calls = <<>>

(* C39: a repository change that is given up is a no-op for the board:    *)
(* entering the repository screen and every key pressed on it up to the    *)
(* Esc in Typing that leaves it (typing, listings that fail or succeed,    *)
(* filtering, Esc from Picking) leave repo, the four card lists,           *)
(* active_section and the four cursors as they were and write no           *)
(* configuration.                                                          *)
C39_CancelledChangeKeepsBoard ==
    [][(screen = "RepoSelect" \/ screen' = "RepoSelect") =>
        /\ repo' = repo
        /\ CardLists' = CardLists
        /\ active_section' = active_section
        /\ selected_card' = selected_card
        /\ config' = config
        /\ "save-config" \notin Range(Cmds(calls'))]_vars

\* back on the board of a/w after a listing of two repositories was
\* fetched and given up: second section active, its cursor on the second
\* worktree
C39_BackOnBoard ==
    /\ InMode("Normal")
    /\ repo = RepoUniverse[1]
    /\ Len(repo_select.repos) = 2
    /\ repo_select.input = <<"a">>
    /\ active_section = 1
    /\ selected_card[1] = 1
    /\ Len(worktrees) = 2
    /\ calls = <<>>


\* the store a call reads from the file when the read succeeds
Stored ==
    IF IsSome(store_file) /\ IsSome(Unwrap(store_file))
    THEN Unwrap(Unwrap(store_file))
    ELSE [next_id |-> 0, issues |-> <<>>]

\* the ids of the stored issues
StoredIds == {Stored.issues[i].id : i \in 1..Len(Stored.issues)}

(* C40: after any sequence of create, edit and close calls on one          *)
(* repository the stored issue ids are pairwise distinct, and every         *)
(* successful create returns an id strictly greater than every id returned  *)
(* before; edit and close of an id that is not stored return an error and   *)
(* leave the file unchanged, and neither ever changes next_id or removes    *)
(* an issue.                                                                *)
C40_LocalIdsGrow ==
    /\ [](\A i, j \in 1..Len(Stored.issues) :
            Stored.issues[i].id = Stored.issues[j].id => i = j)
    /\ [][/\ (CreateLocalIssue /\ returned'.res = "Ok"
                 /\ given'.fn = "create")
              => \A i \in 1..Len(returned.created) :
                    returned.created[i] < returned'.id
          /\ ((EditLocalIssue \/ CloseLocalIssue)
                 /\ given'.fn \in {"edit", "close"}
                 /\ given'.id \notin StoredIds)
              => /\ returned'.res \notin {"Ok", "none"}
                 /\ store_file' = store_file
          /\ ((EditLocalIssue \/ CloseLocalIssue)
                 /\ given'.fn \in {"edit", "close"})
              => /\ Stored'.next_id = Stored.next_id
                 /\ Len(Stored'.issues) = Len(Stored.issues)
                 /\ \A i \in 1..Len(Stored.issues) :
                      Stored'.issues[i].id = Stored.issues[i].id]_vars

====
